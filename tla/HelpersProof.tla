---------------------------- MODULE HelpersProof ----------------------------
(***************************************************************************)
(* Proofs about what the graph algorithms are built with: UnionFind and    *)
(* WriteMin, the two algorithms of atomic.h, for every number of elements, *)
(* every set of threads and every set of integer values; LocalQueue for    *)
(* every graph, every capacity and every number of vertices found; and     *)
(* Pool for every number of workers, Arrays, blocks and buckets: no block  *)
(* is used twice or lost, no list is broken, and ~Pool finds every block.  *)
(* And proofs about the searches that use the queue and write_min, for     *)
(* every set of graphs and of tasks: BreadthFirstSearch, BreadthFirstTree. *)
(***************************************************************************)
EXTENDS UnionFind, WriteMin, LocalQueue, Pool, BreadthFirstSearch, BreadthFirstTree,
        FiniteSetTheorems, WellFoundedInduction, TLAPS

(***************************************************************************)
(* Parents descend, whatever the number of elements and threads, and so    *)
(* does everything that is about to be stored in one.                      *)
(***************************************************************************)
Descent == TypeOK /\ StoresDescend

LEMMA InitialDescent == Init => Descent
<1> SUFFICES ASSUME Init PROVE Descent
  OBVIOUS
<1>1. 0 \in Elements /\ \A e \in Elements : e <= e
  BY UnionFindAssumption DEF Elements
<1>2. Idle \in Call
  BY <1>1 DEF Idle, Call
<1>3. TypeOK
  BY <1>1, <1>2 DEF Init, TypeOK
<1> QED BY <1>3 DEF Init, Idle, Descent, StoresDescend

(* A step changes the call of one thread only. *)
LEMMA OneCall ==
  ASSUME Descent, NEW t \in Threads, NEW c \in Call, call' = [call EXCEPT ![t] = c],
         parent' \in [Elements -> Elements], \A e \in Elements : parent'[e] <= e,
         set' \in [Elements -> SUBSET Elements],
         c.at = "read2" => c.p <= c.x,
         c.at \in {"chase", "store"} => c.pp < c.x,
         c.at \in {"test", "set"} => c.j < c.i
  PROVE  Descent'
<1>1. call \in [Threads -> Call]
  BY DEF Descent, TypeOK
<1>2. /\ call' \in [Threads -> Call] /\ call'[t] = c
      /\ \A u \in Threads : u # t => call'[u] = call[u]
  BY <1>1
<1>3. TypeOK'
  BY <1>2 DEF TypeOK
<1>4. StoresDescend'
  BY <1>2 DEF StoresDescend, Descent
<1> QED BY <1>3, <1>4 DEF Descent

LEMMA StepDescent ==
  ASSUME Descent, [Next]_vars
  PROVE  Descent' /\ \A e \in Elements : parent[e] # e => parent'[e] # e
<1> DEFINE Goal == Descent' /\ \A e \in Elements : parent[e] # e => parent'[e] # e
<1>a. /\ parent \in [Elements -> Elements] /\ call \in [Threads -> Call]
      /\ set \in [Elements -> SUBSET Elements]
      /\ \A e \in Elements : parent[e] <= e
      /\ 0 \in Elements
  BY UnionFindAssumption DEF Descent, TypeOK, Elements
<1>f. \A t \in Threads : call[t] \in Call
  BY <1>a
<1>g. \A e \in Elements : e \in Int
  BY UnionFindAssumption DEF Elements
<1>b. Idle \in Call /\ Idle.at = "idle"
  BY <1>a DEF Idle, Call
<1>c. ASSUME NEW t \in Threads, Returns(t), UNCHANGED <<parent, set>> PROVE Goal
  <2>1. Descent'
    BY <1>a, <1>b, <1>c, OneCall DEF Returns
  <2> QED BY <1>c, <2>1
<1>d. ASSUME NEW t \in Threads, Again(t), UNCHANGED <<parent, set>> PROVE Goal
  <2> DEFINE c == [call[t] EXCEPT !.at = "read", !.x = call[t].i]
  <2>1. c \in Call /\ c.at = "read"
    BY <1>f DEF Call
  <2>2. call' = [call EXCEPT ![t] = c]
    BY <1>d DEF Again
  <2> HIDE DEF c
  <2>3. Descent'
    BY <1>a, <1>d, <2>1, <2>2, OneCall
  <2> QED BY <1>d, <2>3
<1>e. ASSUME NEW t \in Threads, NEW where \in {"read2", "chase", "store"},
             NEW p \in Elements, NEW pp \in Elements, Goes(t, where, p, pp),
             UNCHANGED <<parent, set>>,
             where = "read2" => p <= call[t].x, where # "read2" => pp < call[t].x
      PROVE  Goal
  <2> DEFINE c == [call[t] EXCEPT !.at = where, !.p = p, !.pp = pp]
  <2>1. c \in Call /\ c.at = where /\ c.p = p /\ c.pp = pp /\ c.x = call[t].x
    BY <1>e, <1>f DEF Call
  <2>2. call' = [call EXCEPT ![t] = c]
    BY <1>a, <1>e DEF Goes
  <2> HIDE DEF c
  <2>3. Descent'
    BY <1>a, <1>e, <2>1, <2>2, OneCall
  <2> QED BY <1>e, <2>3
<1> HIDE DEF Goal
<1>1. ASSUME NEW t \in Threads, NEW e \in Elements, NEW d \in Elements,
             Find(t, e) \/ Unite(t, e, d)
      PROVE  Goal
  <2>1. PICK c \in Call : c.at = "read" /\ call' = [call EXCEPT ![t] = c]
    <3>1. CASE Find(t, e)
      <4> DEFINE c == [Idle EXCEPT !.fn = "find", !.at = "read", !.args = <<e, e>>, !.x = e]
      <4>1. c \in Call /\ c.at = "read"
        BY <1>a DEF Idle, Call
      <4> QED BY <3>1, <4>1 DEF Find
    <3>2. CASE Unite(t, e, d)
      <4> DEFINE c == [Idle EXCEPT !.fn = "unite", !.at = "read", !.args = <<e, d>>,
                         !.i = e, !.j = d, !.x = e]
      <4>1. c \in Call /\ c.at = "read"
        BY <1>a DEF Idle, Call
      <4> QED BY <3>2, <4>1 DEF Unite
    <3> QED BY <1>1, <3>1, <3>2
  <2>2. UNCHANGED <<parent, set>>
    BY <1>1 DEF Find, Unite
  <2>3. Descent'
    BY <1>a, <2>1, <2>2, OneCall
  <2> QED BY <2>2, <2>3 DEF Goal
<1>2. ASSUME NEW t \in Threads, ReadParent(t) PROVE Goal
  <2>1. call[t].x \in Elements
    BY <1>a DEF Call
  <2> QED BY <1>2, <1>a, <1>e, <2>1 DEF ReadParent
<1>3. ASSUME NEW t \in Threads, NEW r \in Elements, Found(t, r), UNCHANGED <<parent, set>>
      PROVE  Goal
  <2>1. CASE call[t].walk = "i"
    <3> DEFINE c == [call[t] EXCEPT !.at = "read", !.i = r, !.walk = "j",
                       !.x = call[t].j, !.p = 0, !.pp = 0]
    <3>1. c \in Call /\ c.at = "read"
      BY <1>a, <1>f DEF Call
    <3>2. call' = [call EXCEPT ![t] = c]
      BY <1>3, <2>1 DEF Found
    <3> HIDE DEF c
    <3>3. Descent'
      BY <1>a, <1>3, <3>1, <3>2, OneCall
    <3> QED BY <1>3, <3>3 DEF Goal
  <2>2. CASE call[t].walk # "i" /\ call[t].i = r
    BY <1>3, <1>c, <2>2 DEF Found
  <2>3. CASE call[t].walk # "i" /\ call[t].i # r
    <3> DEFINE i == Larger(call[t].i, r)
               j == IF i = r THEN call[t].i ELSE r
               c == [call[t] EXCEPT !.at = "test", !.walk = "i", !.i = i, !.j = j,
                       !.x = 0, !.p = 0, !.pp = 0]
    <3>1. call[t].i \in Elements
      BY <1>a DEF Call
    <3>2. i \in Elements /\ j \in Elements /\ j < i
      BY <1>g, <2>3, <3>1 DEF Larger
    <3>3. call' = [call EXCEPT ![t] = c]
      BY <1>3, <2>3 DEF Found
    <3> HIDE DEF i, j
    <3>4. c \in Call /\ c.at = "test" /\ c.i = i /\ c.j = j
      BY <1>a, <1>f, <3>2 DEF Call
    <3> HIDE DEF c
    <3>5. Descent'
      BY <1>a, <1>3, <3>2, <3>3, <3>4, OneCall
    <3> QED BY <1>3, <3>5 DEF Goal
  <2> QED BY <2>1, <2>2, <2>3
<1>4. ASSUME NEW t \in Threads, ReadGrandparent(t) PROVE Goal
  <2> DEFINE pp == parent[call[t].p]
  <2>1. call[t].p \in Elements /\ call[t].x \in Elements
    BY <1>a DEF Call
  <2>2. pp \in Elements /\ pp <= call[t].p /\ call[t].p <= call[t].x
    BY <1>4, <1>a, <2>1 DEF ReadGrandparent, Descent, StoresDescend
  <2>3. UNCHANGED <<parent, set>> /\ \/ Found(t, pp) \/ Returns(t)
                                     \/ call[t].p # pp /\ (Goes(t, "store", call[t].p, pp) \/ Goes(t, "chase", pp, pp))
    BY <1>4 DEF ReadGrandparent
  <2> HIDE DEF pp
  <2>4. call[t].p # pp => pp < call[t].x
    BY <1>g, <2>1, <2>2
  <2> QED BY <1>c, <1>e, <1>3, <2>1, <2>2, <2>3, <2>4
<1>5. ASSUME NEW t \in Threads, Chase(t) PROVE Goal
  <2> DEFINE pp == parent[call[t].pp]
  <2>1. call[t].pp \in Elements /\ call[t].x \in Elements /\ call[t].pp < call[t].x
    BY <1>5, <1>a DEF Call, Chase, Descent, StoresDescend
  <2>2. pp \in Elements /\ pp < call[t].x
    <3>1. pp \in Elements /\ pp <= call[t].pp
      BY <1>a, <2>1
    <3> QED BY <1>g, <2>1, <3>1
  <2>3. UNCHANGED <<parent, set>> /\ (Goes(t, "store", pp, pp) \/ Goes(t, "chase", pp, pp))
    BY <1>5 DEF Chase
  <2> QED BY <1>e, <2>2, <2>3
<1>6. ASSUME NEW t \in Threads, Store(t) PROVE Goal
  <2> DEFINE x == call[t].x
             pp == call[t].pp
             next == [call[t] EXCEPT !.at = "read", !.x = call[t].pp, !.p = 0, !.pp = 0]
  <2>1. x \in Elements /\ pp \in Elements /\ pp < x
    BY <1>6, <1>a DEF Call, Store, Descent, StoresDescend
  <2>2. parent' = [parent EXCEPT ![x] = pp] /\ set' = set
    BY <1>6 DEF Store
  <2>3. next \in Call /\ next.at = "read"
    BY <1>a, <1>f DEF Call
  <2>4. call' = [call EXCEPT ![t] = Idle] \/ call' = [call EXCEPT ![t] = next]
    BY <1>6 DEF Store, Returns
  <2> HIDE DEF x, pp, next
  <2>5. /\ parent' \in [Elements -> Elements] /\ \A e \in Elements : parent'[e] <= e
        /\ \A e \in Elements : parent[e] # e => parent'[e] # e
    BY <1>a, <1>g, <2>1, <2>2
  <2>6. Descent'
    BY <1>a, <1>b, <2>2, <2>3, <2>4, <2>5, OneCall
  <2> QED BY <2>5, <2>6 DEF Goal
<1>7. ASSUME NEW t \in Threads, Test(t) PROVE Goal
  <2>1. CASE Again(t)
    BY <1>7, <2>1, <1>d DEF Test
  <2>2. CASE call' = [call EXCEPT ![t].at = "set"]
    <3> DEFINE c == [call[t] EXCEPT !.at = "set"]
    <3>1. c \in Call /\ c.at = "set" /\ c.i = call[t].i /\ c.j = call[t].j
      BY <1>a DEF Call
    <3>2. call[t].j < call[t].i /\ UNCHANGED <<parent, set>>
      BY <1>7 DEF Test, Descent, StoresDescend
    <3>3. call' = [call EXCEPT ![t] = c]
      BY <1>a, <2>2
    <3> HIDE DEF c
    <3>4. Descent'
      BY <1>a, <3>1, <3>2, <3>3, OneCall
    <3> QED BY <3>2, <3>4 DEF Goal
  <2> QED BY <1>7, <2>1, <2>2 DEF Test
<1>8. ASSUME NEW t \in Threads, Link(t) PROVE Goal
  <2> DEFINE i == call[t].i
             j == call[t].j
  <2>1. i \in Elements /\ j \in Elements /\ j < i /\ call[t].args \in Elements \X Elements
    BY <1>8, <1>a DEF Call, Link, Descent, StoresDescend
  <2>2. CASE Again(t) /\ UNCHANGED <<parent, set>>
    BY <2>2, <1>d
  <2>3. CASE parent' = [parent EXCEPT ![i] = j] /\ Returns(t)
    <3>1. set' \in [Elements -> SUBSET Elements]
      <4> DEFINE joined == set[call[t].args[1]] \cup set[call[t].args[2]]
      <4>1. joined \in SUBSET Elements
        BY <1>a, <2>1
      <4>2. set' = [e \in Elements |-> IF e \in joined THEN joined ELSE set[e]] \/ set' = set
        BY <1>8 DEF Link
      <4> HIDE DEF joined
      <4> QED BY <1>a, <4>1, <4>2
    <3> HIDE DEF i, j
    <3>2. /\ parent' \in [Elements -> Elements] /\ \A e \in Elements : parent'[e] <= e
          /\ \A e \in Elements : parent[e] # e => parent'[e] # e
      BY <1>a, <1>g, <2>1, <2>3
    <3>3. Descent'
      BY <1>a, <1>b, <2>3, <3>1, <3>2, OneCall DEF Returns
    <3> QED BY <3>2, <3>3 DEF Goal
  <2> QED BY <1>8, <2>2, <2>3 DEF Link
<1>9. ASSUME UNCHANGED vars PROVE Goal
  BY <1>9 DEF vars, Goal, Descent, TypeOK, StoresDescend
<1>10. Goal
  <2>1. ASSUME NEW t \in Threads, Step(t) PROVE Goal
    BY <2>1, <1>2, <1>4, <1>5, <1>6, <1>7, <1>8 DEF Step
  <2>2. CASE Next
    <3>1. PICK t \in Threads :
            Step(t) \/ \E e \in Elements : Find(t, e) \/ \E d \in Elements : Unite(t, e, d)
      BY <2>2 DEF Next
    <3> QED BY <3>1, <2>1, <1>1
  <2> QED BY <2>2, <1>9
<1> QED BY <1>10 DEF Goal

(***************************************************************************)
(* Walks to the root descend and so end: no element is its own ancestor,   *)
(* and whatever a thread read, it stores only what lies below the place.   *)
(***************************************************************************)
THEOREM Invariance == Spec => []Descent
<1>1. Descent /\ [Next]_vars => Descent'
  BY StepDescent
<1> QED BY <1>1, InitialDescent, PTL DEF Spec

(***************************************************************************)
(* An element that was linked never becomes a root again, for any number   *)
(* of elements and of threads that call find and unite.                    *)
(***************************************************************************)
THEOREM LinksStay == Spec => LinksAreForGood
<1>1. Descent /\ [Next]_vars => [\A e \in Elements : parent[e] # e => parent'[e] # e]_vars
  BY StepDescent
<1> QED BY <1>1, Invariance, PTL DEF Spec, LinksAreForGood


-----------------------------------------------------------------------------
(***************************************************************************)
(* The sets: together with Descent, everything that keeps the trees of the *)
(* forest equal to the sets unite was asked to join.                       *)
(***************************************************************************)
Apart == Descent /\ SetsAreApart /\ RootsAreLeast /\ WalksStayInSets

(* An element of an element's set has the same set. *)
LEMMA SameSet ==
  ASSUME Apart, NEW e \in Elements, NEW d \in set[e]
  PROVE  d \in Elements /\ set[d] = set[e] /\ e \in set[d] /\ parent[d] \in set[e]
BY DEF Apart, Descent, TypeOK, SetsAreApart

(* What is in a set stays in it when sets only grow. *)
LEMMA StaysGrow ==
  ASSUME NEW c \in Call, NEW s, NEW bigger, \A e \in Elements : s[e] \subseteq bigger[e],
         StaysIn(c, s)
  PROVE  StaysIn(c, bigger)
<1>1. /\ c.x \in Elements /\ c.i \in Elements /\ c.j \in Elements
      /\ c.args[1] \in Elements /\ c.args[2] \in Elements
  BY DEF Call
<1> QED BY <1>1 DEF StaysIn

(* Again it is enough to look at the call that a step changes. *)
LEMMA OneWalk ==
  ASSUME Apart, NEW t \in Threads, NEW c, call' = [call EXCEPT ![t] = c],
         \A e \in Elements : set[e] \subseteq set'[e], StaysIn(c, set')
  PROVE  WalksStayInSets'
<1>1. call \in [Threads -> Call]
  BY DEF Apart, Descent, TypeOK
<1>2. ASSUME NEW u \in Threads PROVE StaysIn(call'[u], set')
  <2>1. CASE u = t
    BY <1>1, <2>1
  <2>2. CASE u # t
    <3>1. call'[u] = call[u] /\ call[u] \in Call /\ StaysIn(call[u], set)
      BY <1>1, <2>2 DEF Apart, WalksStayInSets
    <3> QED BY <3>1, StaysGrow
  <2> QED BY <2>1, <2>2
<1> QED BY <1>2 DEF WalksStayInSets

LEMMA InitialApart == Init => Apart
<1> SUFFICES ASSUME Init PROVE Apart
  OBVIOUS
<1>1. \A e \in Elements : e <= e
  BY UnionFindAssumption DEF Elements
<1>2. \A t \in Threads : StaysIn(call[t], set)
  BY DEF Init, Idle, StaysIn
<1> QED BY <1>1, <1>2, InitialDescent DEF Apart, Init, SetsAreApart, RootsAreLeast, WalksStayInSets

(***************************************************************************)
(* A thread that reached a root r of what it walks for: r lies in the set  *)
(* of that walk, and the thread goes on inside its sets.                   *)
(***************************************************************************)
LEMMA FoundStays ==
  ASSUME Apart, NEW t \in Threads, call[t].fn = "unite", call[t].at = "read2",
         NEW r \in set[call[t].x], Found(t, r), UNCHANGED <<parent, set>>
  PROVE  WalksStayInSets'
<1> DEFINE o == call[t]
           a == set[o.args[1]]
           b == set[o.args[2]]
<1>1. /\ o \in Call /\ o.fn = "unite" /\ o.x \in Elements /\ o.i \in Elements /\ o.j \in Elements
      /\ o.walk \in {"i", "j"} /\ o.args[1] \in Elements /\ o.args[2] \in Elements
      /\ StaysIn(o, set)
  BY DEF Apart, Descent, TypeOK, WalksStayInSets, Call
<1>2. /\ (o.i \in a /\ o.j \in b) \/ (o.i \in b /\ o.j \in a)
      /\ o.x \in set[IF o.walk = "i" THEN o.i ELSE o.j]
  BY <1>1 DEF StaysIn
<1>3. r \in Elements /\ r \in set[IF o.walk = "i" THEN o.i ELSE o.j]
  BY <1>1, <1>2, SameSet
<1>4. /\ o.walk = "i" => (r \in a /\ o.j \in b) \/ (r \in b /\ o.j \in a)
      /\ o.walk = "j" => (o.i \in a /\ r \in b) \/ (o.i \in b /\ r \in a)
  <2>1. \A e \in a : set[e] = a
    BY <1>1, SameSet
  <2>2. \A e \in b : set[e] = b
    BY <1>1, SameSet
  <2> QED BY <1>2, <1>3, <2>1, <2>2
<1>5. CASE o.walk = "i"
  <2> DEFINE c == [o EXCEPT !.at = "read", !.i = r, !.walk = "j", !.x = o.j, !.p = 0, !.pp = 0]
  <2>1. call' = [call EXCEPT ![t] = c]
    BY <1>5 DEF Found
  <2>2. /\ c.at = "read" /\ c.fn = "unite" /\ c.i = r /\ c.j = o.j /\ c.walk = "j" /\ c.x = o.j
        /\ c.args = o.args
    BY <1>1 DEF Call
  <2>3. o.j \in set[o.j]
    BY <1>1 DEF Apart, SetsAreApart
  <2> HIDE DEF c
  <2>4. StaysIn(c, set)
    <3> HIDE DEF o
    <3> QED BY <1>4, <1>5, <2>2, <2>3 DEF StaysIn
  <2> QED BY <2>1, <2>4, OneWalk
<1>6. CASE o.walk = "j" /\ o.i = r
  <2>1. StaysIn(Idle, set)
    BY DEF Idle, StaysIn
  <2> QED BY <1>6, <2>1, OneWalk DEF Found, Returns
<1>7. CASE o.walk = "j" /\ o.i # r
  <2> DEFINE i == Larger(o.i, r)
             j == IF i = r THEN o.i ELSE r
             c == [o EXCEPT !.at = "test", !.walk = "i", !.i = i, !.j = j, !.x = 0, !.p = 0, !.pp = 0]
  <2>1. call' = [call EXCEPT ![t] = c]
    BY <1>7 DEF Found
  <2>2. (i = r /\ j = o.i) \/ (i = o.i /\ j = r)
    BY <1>7 DEF Larger
  <2> HIDE DEF i, j
  <2>3. /\ c.at = "test" /\ c.fn = "unite" /\ c.i = i /\ c.j = j /\ c.walk = "i"
        /\ c.args = o.args
    BY <1>1 DEF Call
  <2> HIDE DEF c
  <2>4. StaysIn(c, set)
    <3> HIDE DEF o
    <3> QED BY <1>4, <1>7, <2>2, <2>3 DEF StaysIn
  <2> QED BY <2>1, <2>4, OneWalk
<1> QED BY <1>1, <1>5, <1>6, <1>7

(***************************************************************************)
(* Linking: i is a root, so nothing in its set lies below it; j does, so   *)
(* the two were in different sets, and what was the least element of j's   *)
(* set is the least of both together and their only root.                  *)
(***************************************************************************)
LEMMA LinkJoins ==
  ASSUME Apart, NEW t \in Threads, call[t].at = "set", StillRoot(call[t].i),
         parent' = [parent EXCEPT ![call[t].i] = call[t].j],
         set' = [e \in Elements |->
                   IF e \in set[call[t].args[1]] \cup set[call[t].args[2]]
                     THEN set[call[t].args[1]] \cup set[call[t].args[2]] ELSE set[e]]
  PROVE  /\ SetsAreApart' /\ RootsAreLeast'
         /\ \A e \in Elements : set[e] \subseteq set'[e]
         /\ call[t].args[2] \in set'[call[t].args[1]]
         /\ call[t].args[2] \notin set[call[t].args[1]]
         /\ parent' # parent
<1> DEFINE i == call[t].i
           j == call[t].j
           a == call[t].args[1]
           b == call[t].args[2]
           joined == set[a] \cup set[b]
<1>1. /\ i \in Elements /\ j \in Elements /\ a \in Elements /\ b \in Elements /\ j < i
      /\ (i \in set[a] /\ j \in set[b]) \/ (i \in set[b] /\ j \in set[a])
      /\ parent[i] = i
  BY DEF Apart, Descent, TypeOK, StoresDescend, WalksStayInSets, StaysIn, Call, StillRoot
<1>2. /\ parent' = [parent EXCEPT ![i] = j] /\ parent \in [Elements -> Elements]
      /\ set' = [e \in Elements |-> IF e \in joined THEN joined ELSE set[e]]
      /\ set \in [Elements -> SUBSET Elements]
  BY DEF Apart, Descent, TypeOK
<1>3. /\ \A e \in Elements : e \in set[e] /\ parent[e] \in set[e]
      /\ \A e \in Elements : \A d \in set[e] : d \in Elements /\ set[d] = set[e]
      /\ \A e \in Elements : parent[e] = e => \A d \in set[e] : e <= d
  BY DEF Apart, Descent, TypeOK, SetsAreApart, RootsAreLeast
<1>g. \A e \in Elements : e \in Int
  BY UnionFindAssumption DEF Elements
<1> HIDE DEF i, j, a, b
<1>4. set[i] # set[j] /\ joined = set[i] \cup set[j] /\ b \notin set[a]
  <2>1. j \notin set[i]
    BY <1>1, <1>3, <1>g
  <2>2. set[i] # set[j]
    BY <2>1, <1>1, <1>3
  <2>3. (set[i] = set[a] /\ set[j] = set[b]) \/ (set[i] = set[b] /\ set[j] = set[a])
    BY <1>1, <1>3
  <2> QED BY <1>1, <1>3, <2>2, <2>3
<1> HIDE DEF joined
<1>5. /\ \A e \in Elements : set'[e] = IF e \in joined THEN joined ELSE set[e]
      /\ \A e \in Elements : parent'[e] = IF e = i THEN j ELSE parent[e]
      /\ i \in joined /\ j \in joined
  <2>1. \A e \in Elements : set'[e] = IF e \in joined THEN joined ELSE set[e]
    BY <1>2
  <2>2. \A e \in Elements : parent'[e] = IF e = i THEN j ELSE parent[e]
    BY <1>1, <1>2
  <2> QED BY <1>1, <1>3, <1>4, <2>1, <2>2
<1>6. \A e \in Elements : e \in joined => set[e] \subseteq joined
  BY <1>1, <1>3, <1>4
<1>7. \A e \in Elements : e \notin joined => set[e] \cap joined = {}
  BY <1>1, <1>3, <1>4
<1>8. SetsAreApart'
  <2>1. ASSUME NEW e \in Elements
        PROVE  e \in set'[e] /\ parent'[e] \in set'[e] /\ \A d \in set'[e] : set'[d] = set'[e]
    <3>1. CASE e \in joined
      <4>1. set'[e] = joined /\ \A d \in joined : d \in Elements
        BY <1>1, <1>3, <1>4, <1>5, <3>1
      <4>2. parent'[e] \in joined
        BY <1>3, <1>5, <1>6, <3>1
      <4> QED BY <1>5, <3>1, <4>1, <4>2
    <3>2. CASE e \notin joined
      <4>1. set'[e] = set[e] /\ parent'[e] = parent[e]
        BY <1>5, <3>2
      <4>2. \A d \in set[e] : set'[d] = set[d]
        BY <1>3, <1>5, <1>7, <3>2
      <4> QED BY <1>3, <4>1, <4>2
    <3> QED BY <3>1, <3>2
  <2> QED BY <2>1 DEF SetsAreApart
<1>9. RootsAreLeast'
  <2>1. ASSUME NEW e \in Elements, parent'[e] = e, NEW d \in set'[e] PROVE e <= d
    <3>1. e # i /\ parent[e] = e
      BY <1>1, <1>5, <1>g, <2>1
    <3>2. CASE e \in joined
      <4>1. e \notin set[i]
        <5> SUFFICES ASSUME e \in set[i] PROVE FALSE
          OBVIOUS
        <5>1. i \in set[e] /\ e <= i /\ i <= e
          BY <1>1, <1>3, <3>1
        <5> QED BY <1>1, <1>g, <3>1, <5>1
      <4>2. e \in set[j] /\ set[e] = set[j] /\ e <= j
        BY <1>1, <1>3, <1>4, <3>1, <3>2, <4>1
      <4>3. d \in set[i] \/ d \in set[e]
        BY <1>4, <1>5, <2>1, <3>2, <4>2
      <4>4. d \in set[i] => d \in Elements /\ i <= d
        BY <1>1, <1>3
      <4>5. d \in set[e] => e <= d
        BY <1>3, <3>1
      <4> QED BY <1>1, <1>g, <4>2, <4>3, <4>4, <4>5
    <3>3. CASE e \notin joined
      BY <1>3, <1>5, <2>1, <3>1, <3>3
    <3> QED BY <3>2, <3>3
  <2> QED BY <2>1 DEF RootsAreLeast
<1>10. \A e \in Elements : set[e] \subseteq set'[e]
  BY <1>5, <1>6
<1>11. b \in set'[a]
  BY <1>1, <1>3, <1>5 DEF joined
<1>12. parent' # parent
  BY <1>1, <1>2, <1>g
<1> QED BY <1>4, <1>8, <1>9, <1>10, <1>11, <1>12 DEF a, b

LEMMA StepApart ==
  ASSUME Apart, [Next]_vars
  PROVE  Apart'
<1>a. /\ parent \in [Elements -> Elements] /\ call \in [Threads -> Call]
      /\ set \in [Elements -> SUBSET Elements]
      /\ \A t \in Threads : call[t] \in Call /\ StaysIn(call[t], set)
      /\ SetsAreApart /\ RootsAreLeast /\ WalksStayInSets
  BY DEF Apart, Descent, TypeOK, WalksStayInSets
<1>b. Descent'
  BY StepDescent DEF Apart
<1> DEFINE Goal == SetsAreApart' /\ RootsAreLeast' /\ WalksStayInSets'
<1>c. UNCHANGED <<parent, set>> => SetsAreApart' /\ RootsAreLeast'
  BY <1>a DEF SetsAreApart, RootsAreLeast
<1>d. ASSUME NEW t \in Threads, NEW c, call' = [call EXCEPT ![t] = c],
             StaysIn(c, set), UNCHANGED <<parent, set>>
      PROVE  Goal
  BY <1>c, <1>d, OneWalk
<1>e. ASSUME NEW t \in Threads, Returns(t), UNCHANGED <<parent, set>> PROVE Goal
  <2>1. StaysIn(Idle, set)
    BY DEF Idle, StaysIn
  <2> QED BY <1>d, <1>e, <2>1 DEF Returns
<1>f. ASSUME NEW t \in Threads, Again(t), call[t].fn = "unite", call[t].walk = "i",
             UNCHANGED <<parent, set>>
      PROVE  Goal
  <2> DEFINE c == [call[t] EXCEPT !.at = "read", !.x = call[t].i]
  <2>1. /\ c.at = "read" /\ c.x = c.i /\ c.fn = "unite" /\ c.walk = "i"
        /\ c.i = call[t].i /\ c.j = call[t].j /\ c.args = call[t].args
    BY <1>a, <1>f DEF Call
  <2>2. c.i \in set[c.i]
    BY <1>a, <2>1 DEF Call, SetsAreApart
  <2>3. call' = [call EXCEPT ![t] = c]
    BY <1>f DEF Again
  <2> HIDE DEF c
  <2>4. StaysIn(c, set)
    BY <1>a, <1>f, <2>1, <2>2 DEF StaysIn
  <2> QED BY <1>d, <1>f, <2>3, <2>4
<1>g. ASSUME NEW t \in Threads, NEW where \in {"read2", "chase", "store"},
             NEW p \in Elements, NEW pp \in Elements, Goes(t, where, p, pp),
             UNCHANGED <<parent, set>>,
             where = "read2" => p \in set[call[t].x] /\ call[t].at = "read",
             where = "chase" => call[t].fn # "unite",
             where = "store" /\ call[t].fn = "unite" => call[t].at = "read2",
             where # "read2" => pp \in set[call[t].x]
      PROVE  Goal
  <2> DEFINE c == [call[t] EXCEPT !.at = where, !.p = p, !.pp = pp]
  <2>1. /\ c.at = where /\ c.p = p /\ c.pp = pp /\ c.x = call[t].x /\ c.fn = call[t].fn
        /\ c.walk = call[t].walk /\ c.i = call[t].i /\ c.j = call[t].j /\ c.args = call[t].args
    BY <1>a, <1>g DEF Call
  <2>2. call' = [call EXCEPT ![t] = c]
    BY <1>a, <1>g DEF Goes
  <2> HIDE DEF c
  <2>3. StaysIn(c, set)
    BY <1>a, <1>g, <2>1 DEF StaysIn
  <2> QED BY <1>d, <1>g, <2>2, <2>3
<1> HIDE DEF Goal
<1>1. ASSUME NEW t \in Threads, NEW e \in Elements, Find(t, e) PROVE Goal
  <2> DEFINE c == [Idle EXCEPT !.fn = "find", !.at = "read", !.args = <<e, e>>, !.x = e]
  <2>1. StaysIn(c, set)
    BY DEF Idle, StaysIn
  <2> QED BY <1>1, <1>d, <2>1 DEF Find
<1>2. ASSUME NEW t \in Threads, NEW e \in Elements, NEW d \in Elements, Unite(t, e, d) PROVE Goal
  <2> DEFINE c == [Idle EXCEPT !.fn = "unite", !.at = "read", !.args = <<e, d>>,
                     !.i = e, !.j = d, !.x = e]
  <2>1. e \in set[e] /\ d \in set[d]
    BY <1>a DEF SetsAreApart
  <2>2. StaysIn(c, set)
    BY <2>1 DEF Idle, StaysIn
  <2> QED BY <1>2, <1>d, <2>2 DEF Unite
<1>3. ASSUME NEW t \in Threads, ReadParent(t) PROVE Goal
  <2>1. call[t].x \in Elements
    BY <1>a DEF Call
  <2>2. parent[call[t].x] \in Elements /\ parent[call[t].x] \in set[call[t].x]
    BY <1>a, <2>1 DEF SetsAreApart
  <2>3. 0 \in Elements
    BY UnionFindAssumption DEF Elements
  <2> QED BY <1>3, <1>g, <2>2, <2>3 DEF ReadParent
<1>4. ASSUME NEW t \in Threads, ReadGrandparent(t) PROVE Goal
  <2> DEFINE o == call[t]
             pp == parent[o.p]
  <2>1. /\ o.x \in Elements /\ o.p \in Elements /\ o.p \in set[o.x] /\ o.at = "read2"
    BY <1>4, <1>a DEF Call, StaysIn, ReadGrandparent
  <2>2. pp \in Elements /\ pp \in set[o.x]
    BY <1>a, <2>1, SameSet
  <2>3. CASE o.fn = "unite" /\ o.p = pp
    <3>1. Found(t, pp) /\ UNCHANGED <<parent, set>>
      BY <1>4, <2>3 DEF ReadGrandparent
    <3> HIDE DEF pp
    <3> QED BY <2>1, <2>2, <2>3, <3>1, <1>c, FoundStays DEF Goal
  <2>4. CASE o.fn = "unite" /\ o.p # pp
    <3>1. Goes(t, "store", o.p, pp) /\ UNCHANGED <<parent, set>>
      BY <1>4, <2>4 DEF ReadGrandparent
    <3> HIDE DEF pp
    <3> QED BY <2>1, <2>2, <2>4, <3>1, <1>g
  <2>5. CASE o.fn # "unite" /\ o.p = pp
    BY <1>4, <1>e, <2>5 DEF ReadGrandparent
  <2>6. CASE o.fn # "unite" /\ o.p # pp
    <3>1. Goes(t, "chase", pp, pp) /\ UNCHANGED <<parent, set>>
      BY <1>4, <2>6 DEF ReadGrandparent
    <3> HIDE DEF pp
    <3> QED BY <2>1, <2>2, <2>6, <3>1, <1>g
  <2> QED BY <2>3, <2>4, <2>5, <2>6
<1>5. ASSUME NEW t \in Threads, Chase(t) PROVE Goal
  <2> DEFINE o == call[t]
             pp == parent[o.pp]
  <2>1. /\ o.x \in Elements /\ o.pp \in set[o.x] /\ o.at = "chase" /\ o.fn # "unite"
    BY <1>5, <1>a DEF Call, StaysIn, Chase
  <2>2. pp \in Elements /\ pp \in set[o.x]
    BY <1>a, <2>1, SameSet
  <2>3. (Goes(t, "store", pp, pp) \/ Goes(t, "chase", pp, pp)) /\ UNCHANGED <<parent, set>>
    BY <1>5 DEF Chase
  <2> HIDE DEF pp
  <2> QED BY <2>1, <2>2, <2>3, <1>g
<1>6. ASSUME NEW t \in Threads, Store(t) PROVE Goal
  <2> DEFINE o == call[t]
             next == [o EXCEPT !.at = "read", !.x = o.pp, !.p = 0, !.pp = 0]
  <2>1. /\ o \in Call /\ o.x \in Elements /\ o.pp \in Elements /\ o.at = "store"
        /\ o.pp \in set[o.x] /\ o.pp < o.x /\ o.x \in Int /\ o.pp \in Int
    BY <1>6, <1>a, UnionFindAssumption
       DEF Call, StaysIn, Store, Apart, Descent, StoresDescend, Elements
  <2>2. parent' = [parent EXCEPT ![o.x] = o.pp] /\ set' = set
    BY <1>6 DEF Store
  <2>3. SetsAreApart'
    BY <1>a, <2>1, <2>2 DEF SetsAreApart
  <2>4. RootsAreLeast'
    BY <1>a, <2>1, <2>2 DEF RootsAreLeast
  <2>5. CASE o.fn = "find"
    <3>1. StaysIn(Idle, set')
      BY DEF Idle, StaysIn
    <3> QED BY <1>6, <2>2, <2>3, <2>4, <2>5, <3>1, OneWalk DEF Store, Returns, Goal
  <2>6. CASE o.fn # "find"
    <3>1. call' = [call EXCEPT ![t] = next]
      BY <1>6, <2>6 DEF Store
    <3>2. /\ next.at = "read" /\ next.x = o.pp /\ next.fn = o.fn /\ next.i = o.i
          /\ next.j = o.j /\ next.walk = o.walk /\ next.args = o.args
      BY <2>1 DEF Call
    <3>3. o.fn = "unite" => o.pp \in set[IF o.walk = "i" THEN o.i ELSE o.j]
      <4> DEFINE w == IF o.walk = "i" THEN o.i ELSE o.j
      <4>1. o.fn = "unite" => o.x \in set[w] /\ w \in Elements
        BY <1>a, <2>1 DEF StaysIn, Call
      <4> HIDE DEF w
      <4>2. o.fn = "unite" => o.pp \in set[w]
        BY <2>1, <4>1, SameSet
      <4> QED BY <4>2 DEF w
    <3>4. StaysIn(o, set) /\ set' = set
      BY <1>a, <2>2
    <3> HIDE DEF next, o
    <3>5. StaysIn(next, set')
      BY <2>6, <3>2, <3>3, <3>4 DEF StaysIn
    <3> QED BY <2>2, <2>3, <2>4, <3>1, <3>5, OneWalk DEF Goal
  <2> QED BY <2>5, <2>6
<1>7. ASSUME NEW t \in Threads, Test(t) PROVE Goal
  <2>1. call[t].fn = "unite" /\ call[t].walk = "i" /\ call[t].at = "test" /\ UNCHANGED <<parent, set>>
    BY <1>7, <1>a DEF StaysIn, Test
  <2>2. CASE Again(t)
    BY <1>f, <2>1, <2>2
  <2>3. CASE call' = [call EXCEPT ![t].at = "set"]
    <3> DEFINE c == [call[t] EXCEPT !.at = "set"]
    <3>1. /\ c.at = "set" /\ c.fn = "unite" /\ c.walk = "i" /\ c.i = call[t].i /\ c.j = call[t].j
          /\ c.args = call[t].args
      BY <1>a, <2>1 DEF Call
    <3>2. call' = [call EXCEPT ![t] = c]
      BY <1>a, <2>3
    <3> HIDE DEF c
    <3>3. StaysIn(c, set)
      BY <1>a, <2>1, <3>1 DEF StaysIn
    <3> QED BY <1>d, <2>1, <3>2, <3>3
  <2> QED BY <1>7, <2>2, <2>3 DEF Test
<1>8. ASSUME NEW t \in Threads, Link(t) PROVE Goal
  <2>1. call[t].fn = "unite" /\ call[t].walk = "i" /\ call[t].at = "set"
    BY <1>8, <1>a DEF StaysIn, Link
  <2>2. CASE StillRoot(call[t].i)
    <3>1. StaysIn(Idle, set')
      BY DEF Idle, StaysIn
    <3>2. SetsAreApart' /\ RootsAreLeast' /\ \A e \in Elements : set[e] \subseteq set'[e]
      BY <1>8, <2>1, <2>2, LinkJoins DEF Link
    <3> QED BY <1>8, <2>2, <3>1, <3>2, OneWalk DEF Link, Returns, Goal
  <2>3. CASE ~ StillRoot(call[t].i)
    BY <1>8, <1>f, <2>1, <2>3 DEF Link
  <2> QED BY <2>2, <2>3
<1>9. ASSUME UNCHANGED vars PROVE Goal
  BY <1>9, <1>a, <1>c DEF vars, Goal, WalksStayInSets
<1>10. Goal
  <2>1. ASSUME NEW t \in Threads, Step(t) PROVE Goal
    BY <2>1, <1>3, <1>4, <1>5, <1>6, <1>7, <1>8 DEF Step
  <2>2. CASE Next
    <3>1. PICK t \in Threads :
            Step(t) \/ \E e \in Elements : Find(t, e) \/ \E d \in Elements : Unite(t, e, d)
      BY <2>2 DEF Next
    <3> QED BY <3>1, <2>1, <1>1, <1>2
  <2> QED BY <2>2, <1>9
<1> QED BY <1>b, <1>10 DEF Apart, Goal

-----------------------------------------------------------------------------
(* Every set of elements that is not empty has a least element. *)
LEMMA LeastOfElements ==
  ASSUME NEW S \in SUBSET Elements, S # {}
  PROVE  \E m \in S : \A d \in S : m <= d
<1>1. S \subseteq Nat
  BY UnionFindAssumption DEF Elements
<1>2. \E m \in S : \A d \in S : ~ <<d, m>> \in OpToRel(<, Nat)
  BY <1>1, WFMin, NatLessThanWellFounded, Zenon
<1>3. PICK m \in S : \A d \in S : ~ <<d, m>> \in OpToRel(<, Nat)
  BY <1>2
<1>4. \A d \in S : ~ d < m
  BY <1>1, <1>3 DEF OpToRel
<1> QED BY <1>1, <1>4

(***************************************************************************)
(* One function gives each element the root of its tree, and it tells two  *)
(* elements apart exactly when their sets do.                              *)
(***************************************************************************)
LEMMA TreesFromSets ==
  ASSUME Apart
  PROVE  TreesAreTheSets
<1> DEFINE Climbs(f) == f = [e \in Elements |-> IF parent[e] = e THEN e ELSE f[parent[e]]]
           least == [e \in Elements |-> CHOOSE m \in set[e] : \A d \in set[e] : m <= d]
           root == CHOOSE f : Climbs(f)
<1>1. /\ parent \in [Elements -> Elements] /\ \A e \in Elements : parent[e] <= e
      /\ \A e \in Elements : e \in set[e] /\ parent[e] \in set[e] /\ set[e] \in SUBSET Elements
      /\ \A e \in Elements : \A d \in set[e] : d \in Elements /\ set[d] = set[e]
      /\ \A e \in Elements : parent[e] = e => \A d \in set[e] : e <= d
  BY DEF Apart, Descent, TypeOK, SetsAreApart, RootsAreLeast
<1>g. \A e \in Elements : e \in Int
  BY UnionFindAssumption DEF Elements
<1>2. \A e \in Elements : least[e] \in set[e] /\ \A d \in set[e] : least[e] <= d
  <2>1. ASSUME NEW e \in Elements
        PROVE  least[e] \in set[e] /\ \A d \in set[e] : least[e] <= d
    <3>1. \E m \in set[e] : \A d \in set[e] : m <= d
      BY <1>1, LeastOfElements
    <3> QED BY <3>1
  <2> QED BY <2>1
<1>3. \A e \in Elements : \A d \in set[e] : least[d] = least[e]
  BY <1>1
<1>4. Climbs(least)
  <2>1. least = [e \in Elements |-> least[e]]
    OBVIOUS
  <2> HIDE DEF least
  <2>2. \A e \in Elements : least[e] = IF parent[e] = e THEN e ELSE least[parent[e]]
    <3>1. ASSUME NEW e \in Elements, parent[e] = e PROVE least[e] = e
      <4>1. least[e] \in Int /\ e \in Int /\ least[e] <= e /\ e <= least[e]
        BY <1>1, <1>2, <1>g, <3>1
      <4> QED BY <4>1
    <3> QED BY <1>1, <1>3, <3>1
  <2> QED BY <2>1, <2>2, Zenon
<1> HIDE DEF least
<1>5. Climbs(root)
  BY <1>4, Zenon
<1>6. \A e \in Elements : root[e] = least[e]
  <2> DEFINE wrong == {e \in Elements : root[e] # least[e]}
  <2>1. SUFFICES ASSUME wrong # {} PROVE FALSE
    OBVIOUS
  <2>2. PICK m \in wrong : \A d \in wrong : m <= d
    BY <2>1, LeastOfElements
  <2>3. /\ root[m] = IF parent[m] = m THEN m ELSE root[parent[m]]
        /\ least[m] = IF parent[m] = m THEN m ELSE least[parent[m]]
    BY <1>4, <1>5
  <2>4. parent[m] # m /\ parent[m] \in wrong /\ parent[m] < m
    BY <1>1, <1>g, <2>2, <2>3
  <2> QED BY <1>1, <1>g, <2>2, <2>4
<1>7. \A e \in Elements : set[e] = {d \in Elements : root[d] = root[e]}
  <2>1. ASSUME NEW e \in Elements, NEW d \in Elements
        PROVE  d \in set[e] <=> root[d] = root[e]
    <3>1. d \in set[e] => least[d] = least[e]
      BY <1>3
    <3>2. least[d] = least[e] => d \in set[e]
      BY <1>1, <1>2
    <3> QED BY <1>6, <3>1, <3>2
  <2> QED BY <1>1, <2>1
<1> QED BY <1>7 DEF TreesAreTheSets

(***************************************************************************)
(* For every number of elements and threads the trees of the forest are    *)
(* the sets that unite was asked to join, however the links and the stores *)
(* that shorten paths interleave.                                          *)
(***************************************************************************)
THEOREM ForestIsRight == Spec => []ForestInvariant
<1>1. Apart /\ [Next]_vars => Apart'
  BY StepApart
<1>2. Apart => ForestInvariant
  BY TreesFromSets DEF Apart, Descent, ForestInvariant
<1> QED BY <1>1, <1>2, InitialApart, PTL DEF Spec

(***************************************************************************)
(* A call of unite that returns in a step: either it found both arguments  *)
(* under one root, or it linked a root and joined two sets.                *)
(***************************************************************************)
LEMMA UniteReturns ==
  ASSUME Apart, [Next]_vars, NEW t \in Threads, call[t].fn = "unite", call'[t] = Idle
  PROVE  LET a == call[t].args[1]
             b == call[t].args[2]
         IN  b \in set'[a] /\ (b \in set[a] <=> parent' = parent)
<1> DEFINE o == call[t]
           a == o.args[1]
           b == o.args[2]
<1>1. /\ call \in [Threads -> Call] /\ o \in Call /\ StaysIn(o, set)
      /\ o.x \in Elements /\ o.p \in Elements /\ a \in Elements /\ b \in Elements
      /\ o.i \in Elements /\ o.j \in Elements /\ o.walk \in {"i", "j"}
  BY DEF Apart, Descent, TypeOK, WalksStayInSets, Call
<1>2. Idle.fn = "none" /\ Idle.at = "idle"
  BY DEF Idle
<1>3. CASE ReadGrandparent(t)
  <2> DEFINE r == parent[o.p]
  <2>1. o.p = r /\ Found(t, r) /\ UNCHANGED <<parent, set>> /\ o.at = "read2"
    <3>1. CASE o.p = r
      BY <1>3, <3>1 DEF ReadGrandparent
    <3>2. CASE o.p # r
      <4>1. call' = [call EXCEPT ![t].at = "store", ![t].p = o.p, ![t].pp = r]
        BY <1>3, <3>2 DEF ReadGrandparent, Goes
      <4>2. call'[t].fn = "unite"
        BY <1>1, <4>1 DEF Call
      <4> QED BY <1>2, <4>2
    <3> QED BY <3>1, <3>2
  <2>2. r \in set[IF o.walk = "i" THEN o.i ELSE o.j]
    <3>1. o.p \in set[o.x] /\ o.x \in set[IF o.walk = "i" THEN o.i ELSE o.j]
      BY <1>1, <2>1 DEF StaysIn
    <3> QED BY <1>1, <2>1, <3>1, SameSet
  <2> HIDE DEF r
  <2>3. o.walk = "j" /\ o.i = r
    <3>1. CASE o.walk = "i"
      <4> DEFINE c == [o EXCEPT !.at = "read", !.i = r, !.walk = "j", !.x = o.j, !.p = 0, !.pp = 0]
      <4>1. call' = [call EXCEPT ![t] = c] /\ c.fn = "unite"
        BY <1>1, <2>1, <3>1 DEF Found, Call
      <4> HIDE DEF c
      <4> QED BY <1>1, <1>2, <4>1
    <3>2. CASE o.walk = "j" /\ o.i # r
      <4> DEFINE c == [o EXCEPT !.at = "test", !.walk = "i", !.i = Larger(o.i, r),
                         !.j = IF Larger(o.i, r) = r THEN o.i ELSE r, !.x = 0, !.p = 0, !.pp = 0]
      <4>1. call' = [call EXCEPT ![t] = c]
        BY <2>1, <3>2 DEF Found
      <4>2. c.fn = "unite"
        BY <1>1 DEF Call
      <4> HIDE DEF c
      <4> QED BY <1>1, <1>2, <4>1, <4>2
    <3> QED BY <1>1, <3>1, <3>2
  <2>4. (o.i \in set[a] /\ o.j \in set[b]) \/ (o.i \in set[b] /\ o.j \in set[a])
    BY <1>1 DEF StaysIn
  <2>5. o.i \in set[o.j]
    BY <2>2, <2>3
  <2> HIDE DEF o, a, b
  <2>6. set[o.i] = set[a] /\ set[o.i] = set[b]
    BY <1>1, <2>4, <2>5, SameSet
  <2>7. b \in set[a]
    BY <1>1, <2>6 DEF Apart, SetsAreApart
  <2> QED BY <2>1, <2>7 DEF a, b, o
<1>4. CASE Link(t)
  <2>1. StillRoot(o.i) /\ o.at = "set"
    <3>1. CASE Again(t)
      <4> DEFINE c == [o EXCEPT !.at = "read", !.x = o.i]
      <4>1. call' = [call EXCEPT ![t] = c] /\ c.fn = "unite"
        BY <1>1, <3>1 DEF Again, Call
      <4> HIDE DEF c
      <4> QED BY <1>1, <1>2, <4>1
    <3> QED BY <1>4, <3>1 DEF Link
  <2> QED BY <1>4, <2>1, LinkJoins DEF Link
<1>5. ReadGrandparent(t) \/ Link(t)
  <2>1. call'[t] # o
    BY <1>2
  <2>2. CASE UNCHANGED vars
    BY <2>1, <2>2 DEF vars
  <2>3. CASE Next
    <3>1. PICK u \in Threads :
            Step(u) \/ \E e \in Elements : Find(u, e) \/ \E d \in Elements : Unite(u, e, d)
      BY <2>3 DEF Next
    <3>2. u = t
      <4>1. CASE \E e \in Elements : Find(u, e) \/ \E d \in Elements : Unite(u, e, d)
        BY <1>1, <2>1, <4>1 DEF Find, Unite
      <4>2. ASSUME ReadParent(u) \/ Chase(u) \/ Test(u) PROVE u = t
        BY <1>1, <2>1, <4>2 DEF ReadParent, Chase, Test, Again, Goes
      <4>3. ASSUME ReadGrandparent(u) PROVE u = t
        BY <1>1, <2>1, <4>3 DEF ReadGrandparent, Found, Returns, Goes
      <4>4. ASSUME Store(u) \/ Link(u) PROVE u = t
        BY <1>1, <2>1, <4>4 DEF Store, Link, Again, Returns
      <4> QED BY <3>1, <4>1, <4>2, <4>3, <4>4 DEF Step
    <3>3. o # Idle
      BY <1>2 DEF o
    <3>4. ~ \E e \in Elements : Find(t, e) \/ \E d \in Elements : Unite(t, e, d)
      BY <3>3 DEF Find, Unite
    <3>5. ~ ReadParent(t)
      <4>1. ASSUME ReadParent(t) PROVE call'[t].fn = "unite"
        <5>1. call' = [call EXCEPT ![t].at = "read2", ![t].p = parent[o.x], ![t].pp = 0]
          BY <4>1 DEF ReadParent, Goes
        <5> QED BY <1>1, <5>1 DEF Call
      <4> QED BY <1>2, <4>1
    <3>6. ~ Chase(t)
      BY <1>1 DEF Chase, StaysIn
    <3>7. ~ Store(t)
      <4>1. Store(t) => call'[t].fn = "unite"
        BY <1>1 DEF Store, Call
      <4> QED BY <1>2, <4>1
    <3>8. ~ Test(t)
      <4>1. Test(t) => call'[t].fn = "unite"
        BY <1>1 DEF Test, Again, Call
      <4> QED BY <1>2, <4>1
    <3> QED BY <3>1, <3>2, <3>4, <3>5, <3>6, <3>7, <3>8 DEF Step
  <2> QED BY <2>2, <2>3
<1> QED BY <1>3, <1>4, <1>5

(***************************************************************************)
(* unite answers max() exactly when its arguments were in one set already, *)
(* and otherwise has joined two sets that were apart, for any number of    *)
(* elements and threads.                                                   *)
(***************************************************************************)
THEOREM UniteIsRight == Spec => UniteTellsTheTruth
<1>1. Apart /\ [Next]_vars => Apart'
  BY StepApart
<1>2. Apart /\ [Next]_vars =>
        [\A t \in Threads :
           call[t].fn = "unite" /\ call'[t] = Idle =>
             LET a == call[t].args[1]
                 b == call[t].args[2]
             IN  /\ b \in set'[a]
                 /\ b \in set[a] <=> parent' = parent]_vars
  BY UniteReturns
<1> QED BY <1>1, <1>2, InitialApart, PTL DEF Spec, UniteTellsTheTruth

-----------------------------------------------------------------------------
(* A thread about to swap has seen a value above its own. *)
THEOREM WriteMinTypeCorrect == WriteMinSpec => []WriteMinTypeOK
<1>1. WriteMinInit => WriteMinTypeOK
  BY WriteMinAssumption DEF WriteMinInit, WriteMinTypeOK
<1>2. WriteMinTypeOK /\ [WriteMinNext]_write_min_vars => WriteMinTypeOK'
  <2> SUFFICES ASSUME WriteMinTypeOK, [WriteMinNext]_write_min_vars PROVE WriteMinTypeOK'
    OBVIOUS
  <2> USE WriteMinAssumption DEF WriteMinTypeOK
  <2>1. ASSUME NEW t \in Writers, NEW v \in Numbers, write_min(t, v) PROVE WriteMinTypeOK'
    BY <2>1 DEF write_min
  <2>2. ASSUME NEW t \in Writers, Read(t) PROVE WriteMinTypeOK'
    BY <2>2 DEF Read, Compare
  <2>3. ASSUME NEW t \in Writers, Swap(t) PROVE WriteMinTypeOK'
    <3>1. CASE Matches(t)
      BY <2>3, <3>1 DEF Swap
    <3>2. CASE ~ Matches(t)
      BY <2>3, <3>2 DEF Swap, Compare
    <3> QED BY <3>1, <3>2
  <2>4. ASSUME NEW t \in Writers, Return(t) PROVE WriteMinTypeOK'
    BY <2>4 DEF Return
  <2>5. CASE UNCHANGED write_min_vars
    BY <2>5 DEF write_min_vars
  <2> QED BY <2>1, <2>2, <2>3, <2>4, <2>5 DEF WriteMinNext, GoesOn
<1> QED BY <1>1, <1>2, PTL DEF WriteMinSpec

(* The abstract calls. *)
Calls ==
  [t \in Writers |->
     [at |-> IF pc[t] \in {"read", "swap"} THEN "pending" ELSE pc[t],
      value |-> value[t], answer |-> answer[t]]]

LEMMA WriteMinRefines == WriteMinTypeOK /\ [WriteMinNext]_write_min_vars => [AM!Next]_<<address, Calls>>
<1> SUFFICES ASSUME WriteMinTypeOK, [WriteMinNext]_write_min_vars
             PROVE  [AM!Next]_<<address, Calls>>
  OBVIOUS
<1>1. ASSUME NEW t \in Writers, NEW v \in Numbers, write_min(t, v) PROVE AM!Call(t, v)
  <2>1. /\ pc' = [pc EXCEPT ![t] = "read"] /\ value' = [value EXCEPT ![t] = v]
        /\ old_value' = [old_value EXCEPT ![t] = old_value[t]]
        /\ answer' = [answer EXCEPT ![t] = FALSE]
        /\ address' = address /\ Calls[t] = AM!Outside
    BY <1>1 DEF write_min, WriteMinTypeOK, AM!Outside, Calls
  <2>2. Calls' = [Calls EXCEPT ![t] = [at |-> "pending", value |-> v, answer |-> FALSE]]
    BY <2>1 DEF Calls, WriteMinTypeOK
  <2> QED BY <1>1, <2>1, <2>2 DEF AM!Call, Calls
<1>2. ASSUME NEW t \in Writers, pc[t] \in {"read", "swap"}, value' = value,
             address' = address, Compare(t, address)
      PROVE  AM!Take(t) \/ UNCHANGED <<address, Calls>>
  <2> DEFINE p == IF value[t] < address THEN "swap" ELSE "done"
  <2>1. /\ pc' = [pc EXCEPT ![t] = p] /\ value' = [value EXCEPT ![t] = value[t]]
        /\ old_value' = [old_value EXCEPT ![t] = address]
        /\ answer' = [answer EXCEPT ![t] = FALSE]
        /\ Calls[t] = [at |-> "pending", value |-> value[t], answer |-> FALSE]
    BY <1>2 DEF Compare, WriteMinTypeOK, Calls
  <2>2. Calls' = [Calls EXCEPT ![t] =
          [at |-> IF p \in {"read", "swap"} THEN "pending" ELSE p, value |-> value[t],
           answer |-> FALSE]]
    BY <2>1 DEF Calls, WriteMinTypeOK
  <2>3. CASE value[t] < address
    <3>1. Calls' = [Calls EXCEPT ![t] = Calls[t]]
      BY <2>1, <2>2, <2>3
    <3> QED BY <1>2, <3>1 DEF Calls
  <2>4. CASE ~ (value[t] < address)
    <3>1. (value[t] < address) = FALSE /\ Calls[t].value = value[t] /\ p = "done"
      BY <2>1, <2>4
    <3>2. Calls' = [Calls EXCEPT ![t] = [at |-> "done", value |-> value[t], answer |-> FALSE]]
      BY <2>2, <3>1
    <3>3. Calls' = [Calls EXCEPT ![t] =
            [at |-> "done", value |-> Calls[t].value, answer |-> Calls[t].value < address]]
      BY <3>1, <3>2
    <3> QED BY <1>2, <2>1, <2>4, <3>3 DEF AM!Take, Calls
  <2> QED BY <2>3, <2>4
<1>3. ASSUME NEW t \in Writers, Read(t) PROVE AM!Take(t) \/ UNCHANGED <<address, Calls>>
  BY <1>2, <1>3 DEF Read
<1>4. ASSUME NEW t \in Writers, Swap(t) PROVE AM!Take(t) \/ UNCHANGED <<address, Calls>>
  <2>1. CASE Matches(t)
    <3>1. /\ pc[t] = "swap" /\ value[t] < address /\ address' = value[t]
          /\ pc' = [pc EXCEPT ![t] = "done"] /\ value' = [value EXCEPT ![t] = value[t]]
          /\ old_value' = [old_value EXCEPT ![t] = old_value[t]]
          /\ answer' = [answer EXCEPT ![t] = TRUE]
      BY <1>4, <2>1 DEF Swap, Matches, WriteMinTypeOK
    <3>2. /\ Calls[t].at = "pending" /\ Calls[t].value = value[t]
          /\ Calls' = [Calls EXCEPT ![t] =
               [at |-> "done", value |-> Calls[t].value, answer |-> Calls[t].value < address]]
      BY <3>1 DEF Calls, WriteMinTypeOK
    <3> QED BY <3>1, <3>2 DEF AM!Take, Calls
  <2>2. CASE ~ Matches(t)
    BY <1>2, <1>4, <2>2 DEF Swap
  <2> QED BY <2>1, <2>2
<1>5. ASSUME NEW t \in Writers, Return(t) PROVE AM!Return(t)
  <2>1. /\ pc[t] = "done" /\ address' = address
        /\ Calls' = [Calls EXCEPT ![t] = AM!Outside]
    BY <1>5 DEF Return, AM!Outside, Calls, WriteMinTypeOK
  <2> QED BY <2>1 DEF AM!Return, Calls
<1>6. CASE UNCHANGED write_min_vars
  BY <1>6 DEF write_min_vars, Calls
<1> QED BY <1>1, <1>3, <1>4, <1>5, <1>6 DEF WriteMinNext, GoesOn, AM!Next

(***************************************************************************)
(* write_min is atomic: it implements AtomicMin, so the algorithms that    *)
(* use it may be modelled with a minimum taken in one step.                *)
(***************************************************************************)
THEOREM WriteMinIsAtomic == WriteMinSpec => ImplementsAtomicMin
<1>1. WriteMinInit => AM!Init
  BY DEF WriteMinInit, AM!Init, AM!Outside
<1>2. WriteMinTypeOK /\ [WriteMinNext]_write_min_vars =>
        [AM!Next]_<<address, [t \in Writers |->
           [at |-> IF pc[t] \in {"read", "swap"} THEN "pending" ELSE pc[t],
            value |-> value[t], answer |-> answer[t]]]>>
  BY WriteMinRefines DEF Calls
<1> QED BY <1>1, <1>2, WriteMinTypeCorrect, PTL DEF WriteMinSpec, AM!Spec, ImplementsAtomicMin

-----------------------------------------------------------------------------
(* LocalQueue. *)

LEMMA EntriesAreCounted ==
  ASSUME NEW places, NEW v, IsFiniteSet(places)
  PROVE  Entries(places, v) \in Nat
<1> DEFINE E == {p \in places : p < Capacity /\ local_queue[p] = v}
<1>1. IsFiniteSet(E)
  BY FS_Subset
<1> QED BY <1>1, FS_CardinalityType DEF Entries

LEMMA InitialInvariant == QueueInit => QueueInvariant
<1> SUFFICES ASSUME QueueInit PROVE QueueInvariant
  OBVIOUS
<1>1. QueueTypeOK
  BY QueueAssumption DEF QueueInit, QueueTypeOK
<1> QED
  BY <1>1 DEF QueueInit, QueueInvariant, FindsFit, CallsAdvance, HoldsVertices, InPhase, Rest

LEMMA StepInvariant == QueueInvariant /\ [QueueNext]_queue_vars => QueueInvariant'
<1> SUFFICES ASSUME QueueInvariant, [QueueNext]_queue_vars PROVE QueueInvariant'
  OBVIOUS
<1> USE QueueAssumption DEF QueueInvariant
<1>a. /\ degree \in [Nodes -> Nat] /\ Capacity \in Nat \ {0}
      /\ lpos \in Nat /\ rpos \in Nat /\ capacity \in Nat
  BY DEF QueueTypeOK
<1>1. ASSUME NEW v \in Nodes, local_search(v) PROVE QueueInvariant'
  <2>a. calls' \in [Nodes -> Nat] /\ degree[v] \in Nat
    <3>1. calls' = [calls EXCEPT ![v] = calls[v] - 1] /\ calls[v] > 0
      BY <1>1 DEF local_search
    <3>2. calls \in [Nodes -> Nat]
      BY DEF QueueTypeOK
    <3>3. calls[v] - 1 \in Nat
      BY <3>1, <3>2
    <3> QED BY <3>1, <3>2, <3>3, <1>a
  <2>1. CASE Wide(v)
    <3>1. QueueTypeOK'
      BY <1>1, <2>1, <2>a DEF local_search, QueueTypeOK, queue
    <3> QED BY <1>1, <2>1, <3>1 DEF local_search, queue, FindsFit, CallsAdvance, HoldsVertices, InPhase, Rest
  <2>2. CASE ~ Wide(v)
    <3>1. QueueTypeOK'
      BY <1>1, <2>2, <2>a, <1>a DEF local_search, QueueTypeOK
    <3>2. /\ lpos' = 0 /\ rpos' = 1 /\ capacity' = Capacity - 1 /\ at' = "pop" /\ degree' = degree
          /\ local_queue' = [p \in 0..(Capacity - 1) |-> IF p = 0 THEN v ELSE None]
          /\ edges' = edges
      BY <1>1, <2>2 DEF local_search
    <3>3. local_queue'[0] = v
      BY <3>2, <1>a
    <3>4. CallsAdvance'
      BY <3>2, <3>3, <2>2, <1>a DEF CallsAdvance, Room, Wide
    <3>5. HoldsVertices'
      BY <3>2, <3>3 DEF HoldsVertices, Rest
    <3> QED BY <1>1, <3>1, <3>2, <3>4, <3>5, <1>a DEF local_search, FindsFit, InPhase
  <2> QED BY <2>1, <2>2
<1>2. ASSUME pop_top PROVE QueueInvariant'
  <2> DEFINE w == degree[local_queue[lpos]]
  <2>1. lpos \in Rest
    BY <1>2, <1>a DEF pop_top, QueueTypeOK, Rest
  <2>2. local_queue[lpos] \in Nodes /\ w \in Nat
    BY <2>1, <1>a DEF HoldsVertices
  <2>3. /\ at = "pop" /\ lpos # rpos /\ capacity >= w
        /\ lpos' = lpos + 1 /\ capacity' = capacity - w /\ at' = "visit" /\ edges' = w
        /\ UNCHANGED <<degree, calls, local_queue, rpos, found>>
    BY <1>2 DEF pop_top, Room
  <2> HIDE DEF w
  <2>4. QueueTypeOK'
    BY <2>2, <2>3, <1>a DEF QueueTypeOK
  <2>5. FindsFit'
    BY <2>2, <2>3, <1>a DEF FindsFit
  <2> QED BY <2>2, <2>3, <2>4, <2>5, <1>a DEF CallsAdvance, HoldsVertices, InPhase, Rest
<1>3. ASSUME Visit PROVE QueueInvariant'
  <2>1. rpos + edges + capacity <= Capacity /\ edges \in Nat /\ edges > 0
    BY <1>3, <1>a DEF Visit, FindsFit, QueueTypeOK
  <2>2. CASE UNCHANGED <<queue, found>>
    <3>1. QueueTypeOK'
      BY <1>3, <2>1, <2>2 DEF Visit, QueueTypeOK, queue
    <3> QED BY <1>3, <2>1, <2>2, <3>1, <1>a
              DEF Visit, queue, FindsFit, CallsAdvance, HoldsVertices, InPhase, Rest
  <2>3. ASSUME NEW d \in Nodes, push_back(d), found < MaxFound, found' = found + 1
        PROVE  QueueInvariant'
    <3>1. rpos \in 0..(Capacity - 1)
      BY <2>1, <1>a
    <3>2. /\ local_queue' = [local_queue EXCEPT ![rpos] = d]
          /\ rpos' = rpos + 1 /\ lpos' = lpos /\ capacity' = capacity
          /\ at = "visit" /\ at' = at /\ edges' = edges - 1 /\ degree' = degree /\ calls' = calls
      BY <1>3, <2>3 DEF Visit, push_back
    <3>3. QueueTypeOK'
      BY <2>1, <2>3, <3>1, <3>2, <1>a DEF QueueTypeOK
    <3>4. HoldsVertices'
      BY <3>1, <3>2, <1>a DEF HoldsVertices, Rest, QueueTypeOK
    <3> QED BY <2>1, <3>2, <3>3, <3>4, <1>a DEF FindsFit, CallsAdvance, InPhase
  <2> QED BY <1>3, <2>2, <2>3 DEF Visit
<1>4. ASSUME VisitWide PROVE QueueInvariant'
  <2>1. QueueTypeOK'
    BY <1>4 DEF VisitWide, QueueTypeOK, queue
  <2> QED BY <1>4, <2>1 DEF VisitWide, queue, FindsFit, CallsAdvance, HoldsVertices, InPhase, Rest
<1>5. ASSUME Visited PROVE QueueInvariant'
  <2>1. QueueTypeOK'
    BY <1>5 DEF Visited, QueueTypeOK, queue
  <2> QED BY <1>5, <2>1, <1>a
            DEF Visited, queue, FindsFit, CallsAdvance, HoldsVertices, InPhase, Rest
<1>6. ASSUME for_each PROVE QueueInvariant'
  <2>1. IsFiniteSet(Rest)
    BY <1>a, FS_Interval DEF Rest
  <2>2. \A v \in Nodes : Entries(Rest, v) \in Nat
    BY <2>1, EntriesAreCounted
  <2>3. QueueTypeOK'
    BY <1>6, <2>2 DEF for_each, QueueTypeOK
  <2> QED BY <1>6, <2>3 DEF for_each, FindsFit, CallsAdvance, HoldsVertices, InPhase, Rest
<1>7. CASE UNCHANGED queue_vars
  BY <1>7 DEF queue_vars, queue, QueueTypeOK, FindsFit, CallsAdvance, HoldsVertices, InPhase, Rest, Room
<1> QED BY <1>1, <1>2, <1>3, <1>4, <1>5, <1>6, <1>7 DEF QueueNext, Done

(***************************************************************************)
(* Nothing is ever written past the array of a local queue, what it hands  *)
(* out was written, and each call of local_search searches at least the    *)
(* vertex it was made for.                                                 *)
(***************************************************************************)
THEOREM QueueIsRight == QueueSpec => []QueueInvariant
BY InitialInvariant, StepInvariant, PTL DEF QueueSpec

-----------------------------------------------------------------------------
(* The places of the queue that hold a vertex, and their number. *)
Places(v) == {p \in Rest : p < Capacity /\ local_queue[p] = v}

LEMMA PlacesAreFinite ==
  ASSUME QueueInvariant, NEW v
  PROVE  IsFiniteSet(Places(v)) /\ Entries(Rest, v) = Cardinality(Places(v)) /\ Entries(Rest, v) \in Nat
<1>1. IsFiniteSet(Rest)
  BY FS_Interval, QueueAssumption DEF QueueInvariant, QueueTypeOK, Rest
<1>2. IsFiniteSet(Places(v))
  BY <1>1, FS_Subset DEF Places
<1> QED BY <1>1, <1>2, EntriesAreCounted DEF Entries, Places

LEMMA PendingType == QueueInvariant => Pending \in [Nodes -> Nat]
<1> SUFFICES ASSUME QueueInvariant, NEW v \in Nodes
             PROVE  calls[v] + (IF at \in {"pop", "visit"} THEN Entries(Rest, v) ELSE 0) \in Nat
  BY DEF Pending
<1>1. calls[v] \in Nat
  BY DEF QueueInvariant, QueueTypeOK
<1> QED BY <1>1, PlacesAreFinite

LEMMA QueueInitRefines == QueueInit => Promise!Init
<1> SUFFICES ASSUME QueueInit PROVE Promise!Init
  OBVIOUS
<1>1. Pending \in [Nodes -> Nat]
  BY InitialInvariant, PendingType
<1> QED BY <1>1, QueueAssumption DEF QueueInit, Promise!Init

(* A call that has a queue puts its vertex there: it waits as before. *)
LEMMA local_searchRefines ==
  ASSUME QueueInvariant, NEW v \in Nodes, local_search(v), QueueInvariant'
  PROVE  Promise!Search(v) \/ UNCHANGED Promise!vars
<1>1. /\ calls \in [Nodes -> Nat] /\ at = "idle" /\ edges = 0 /\ calls[v] > 0
      /\ calls' = [calls EXCEPT ![v] = calls[v] - 1] /\ degree' = degree
  BY DEF local_search, QueueInvariant, QueueTypeOK, InPhase
<1>2. Pending = calls
  <2>1. \A u \in Nodes : calls[u] \in Nat
    BY <1>1
  <2> QED BY <1>1, <2>1 DEF Pending
<1>3. CASE Wide(v)
  <2>1. at' = "wide" /\ edges' = degree[v]
    BY <1>3 DEF local_search
  <2>2. Pending' = calls'
    <3>1. \A u \in Nodes : calls'[u] \in Nat
      BY DEF QueueInvariant, QueueTypeOK
    <3>2. calls' \in [Nodes -> Nat]
      BY DEF QueueInvariant, QueueTypeOK
    <3> QED BY <2>1, <3>1, <3>2 DEF Pending
  <2> QED BY <1>1, <1>2, <2>1, <2>2 DEF Promise!Search
<1>4. CASE ~ Wide(v)
  <2>1. /\ at' = "pop" /\ lpos' = 0 /\ rpos' = 1 /\ edges' = edges
        /\ local_queue' = [p \in 0..(Capacity - 1) |-> IF p = 0 THEN v ELSE None]
    BY <1>4 DEF local_search
  <2>2. ASSUME NEW u \in Nodes
        PROVE  Entries(Rest, u)' = IF u = v THEN 1 ELSE 0
    <3>1. Rest' = {0} /\ local_queue'[0] = v /\ 0 < Capacity
      BY <2>1, QueueAssumption DEF Rest
    <3>2. Places(u)' = IF u = v THEN {0} ELSE {}
      BY <3>1 DEF Places
    <3>3. Entries(Rest, u)' = Cardinality(Places(u)')
      BY DEF Entries, Places
    <3> QED BY <3>2, <3>3, FS_EmptySet, FS_Singleton
  <2>3. \A u \in Nodes : calls'[u] + Entries(Rest, u)' = calls[u]
    BY <1>1, <2>2
  <2>4. Pending' = calls
    BY <1>1, <2>1, <2>3 DEF Pending
  <2> QED BY <1>1, <1>2, <2>1, <2>4 DEF Promise!vars
<1> QED BY <1>3, <1>4

LEMMA PopRefines ==
  ASSUME QueueInvariant, pop_top
  PROVE  \E v \in Nodes : Promise!Search(v)
<1> DEFINE v == local_queue[lpos]
<1>1. /\ at = "pop" /\ at' = "visit" /\ lpos # rpos /\ lpos' = lpos + 1
      /\ edges' = degree[v] /\ UNCHANGED <<degree, calls, local_queue, rpos>> /\ edges = 0
  BY DEF pop_top, QueueInvariant, InPhase
<1>2. lpos \in 0..(rpos - 1) /\ rpos \in 0..Capacity /\ Capacity \in Nat
  BY <1>1, QueueAssumption DEF QueueInvariant, QueueTypeOK
<1>3. v \in Nodes
  BY <1>2 DEF QueueInvariant, HoldsVertices, Rest
<1>4. ASSUME NEW u \in Nodes
      PROVE  /\ Entries(Rest, u) \in Nat
             /\ Entries(Rest, u)' = IF u = v THEN Entries(Rest, u) - 1 ELSE Entries(Rest, u)
  <2>1. Places(u)' = Places(u) \ {lpos}
    BY <1>1, <1>2 DEF Places, Rest
  <2>2. lpos \in Places(u) <=> u = v
    BY <1>2 DEF Places, Rest
  <2>3. Entries(Rest, u)' = Cardinality(Places(u)')
    BY DEF Entries, Places
  <2> QED BY <2>1, <2>2, <2>3, PlacesAreFinite, FS_RemoveElement
<1>5. lpos \in Places(v) /\ Entries(Rest, v) > 0
  <2>1. lpos \in Places(v)
    BY <1>2 DEF Places, Rest
  <2> QED BY <2>1, PlacesAreFinite, FS_EmptySet
<1>6. \A u \in Nodes : calls[u] \in Nat
  BY DEF QueueInvariant, QueueTypeOK
<1> HIDE DEF v
<1>7. /\ Pending = [u \in Nodes |-> calls[u] + Entries(Rest, u)]
      /\ Pending' = [u \in Nodes |-> calls[u] + Entries(Rest, u)']
  BY <1>1 DEF Pending
<1>8. Pending[v] > 0
  BY <1>3, <1>4, <1>5, <1>6, <1>7
<1>9. Pending' = [Pending EXCEPT ![v] = Pending[v] - 1]
  BY <1>3, <1>4, <1>6, <1>7
<1> QED BY <1>1, <1>3, <1>8, <1>9 DEF Promise!Search, v

LEMMA VisitRefines ==
  ASSUME QueueInvariant, Visit
  PROVE  Promise!Visit
<1>1. at = "visit" /\ at' = at /\ edges > 0 /\ edges' = edges - 1 /\ UNCHANGED <<degree, calls>>
  BY DEF Visit
<1>2. CASE UNCHANGED <<queue, found>>
  <2>1. Pending' = Pending
    BY <1>1, <1>2 DEF Pending, Entries, Rest, queue
  <2> QED BY <1>1, <2>1 DEF Promise!Visit
<1>3. ASSUME NEW d \in Nodes, push_back(d) PROVE Promise!Visit
  <2>1. rpos \in 0..(Capacity - 1) /\ Capacity \in Nat /\ lpos \in 0..rpos
    BY <1>1, QueueAssumption DEF QueueInvariant, QueueTypeOK, FindsFit
  <2>2. /\ local_queue' = [local_queue EXCEPT ![rpos] = d]
        /\ local_queue \in [0..(Capacity - 1) -> Nodes \cup {None}]
        /\ rpos' = rpos + 1 /\ lpos' = lpos
    BY <1>3 DEF push_back, QueueInvariant, QueueTypeOK
  <2>3. ASSUME NEW u \in Nodes
        PROVE  /\ Entries(Rest, u) \in Nat
               /\ Entries(Rest, u)' = IF u = d THEN Entries(Rest, u) + 1 ELSE Entries(Rest, u)
    <3>1. Places(u)' = IF u = d THEN Places(u) \cup {rpos} ELSE Places(u)
      BY <2>1, <2>2 DEF Places, Rest
    <3>2. rpos \notin Places(u)
      BY <2>1 DEF Places, Rest
    <3>3. Entries(Rest, u)' = Cardinality(Places(u)')
      BY DEF Entries, Places
    <3> QED BY <3>1, <3>2, <3>3, PlacesAreFinite, FS_AddElement
  <2>4. \A u \in Nodes : calls[u] \in Nat
    BY DEF QueueInvariant, QueueTypeOK
  <2>5. /\ Pending = [u \in Nodes |-> calls[u] + Entries(Rest, u)]
        /\ Pending' = [u \in Nodes |-> calls[u] + Entries(Rest, u)']
    BY <1>1 DEF Pending
  <2>6. Pending' = [Pending EXCEPT ![d] = Pending[d] + 1]
    BY <1>3, <2>3, <2>4, <2>5
  <2> QED BY <1>1, <1>3, <2>6 DEF Promise!Visit
<1> QED BY <1>2, <1>3 DEF Visit

LEMMA VisitWideRefines ==
  ASSUME QueueInvariant, VisitWide
  PROVE  Promise!Visit
<1>1. /\ at = "wide" /\ at' = at /\ edges > 0 /\ edges' = edges - 1 /\ UNCHANGED degree
      /\ \/ calls' = calls
         \/ \E d \in Nodes : calls' = [calls EXCEPT ![d] = calls[d] + 1]
  BY DEF VisitWide
<1>2. calls \in [Nodes -> Nat]
  BY DEF QueueInvariant, QueueTypeOK
<1>3. calls' \in [Nodes -> Nat]
  BY <1>1, <1>2
<1>4. Pending = calls
  <2>1. \A u \in Nodes : calls[u] + 0 = calls[u]
    BY <1>2
  <2> QED BY <1>1, <1>2, <2>1 DEF Pending
<1>5. Pending' = calls'
  <2>1. \A u \in Nodes : calls'[u] + 0 = calls'[u]
    BY <1>3
  <2> QED BY <1>1, <1>3, <2>1 DEF Pending
<1> QED BY <1>1, <1>4, <1>5 DEF Promise!Visit

(* What is left in the queue and what is handed to calls waits alike. *)
LEMMA for_eachRefines ==
  ASSUME QueueInvariant, for_each
  PROVE  UNCHANGED Promise!vars
<1>1. /\ at = "pop" /\ at' = "idle" /\ UNCHANGED <<degree, edges>>
      /\ calls' = [v \in Nodes |-> calls[v] + Entries(Rest, v)]
  BY DEF for_each
<1>2. \A v \in Nodes : calls'[v] \in Nat /\ calls'[v] = calls[v] + Entries(Rest, v)
  <2>1. \A v \in Nodes : calls[v] \in Nat
    BY DEF QueueInvariant, QueueTypeOK
  <2> QED BY <1>1, <2>1, PlacesAreFinite
<1>3. Pending' = [v \in Nodes |-> calls'[v]]
  BY <1>1, <1>2 DEF Pending
<1>4. Pending = [v \in Nodes |-> calls[v] + Entries(Rest, v)]
  BY <1>1 DEF Pending
<1> QED BY <1>1, <1>2, <1>3, <1>4 DEF Promise!vars

LEMMA QueueStepRefines ==
  ASSUME QueueInvariant, [QueueNext]_queue_vars, QueueInvariant'
  PROVE  [Promise!Next]_(Promise!vars)
<1>1. ASSUME NEW v \in Nodes, local_search(v) PROVE [Promise!Next]_(Promise!vars)
  BY <1>1, local_searchRefines DEF Promise!Next
<1>2. CASE pop_top
  BY <1>2, PopRefines DEF Promise!Next
<1>3. CASE Visit
  BY <1>3, VisitRefines DEF Promise!Next
<1>4. CASE VisitWide
  BY <1>4, VisitWideRefines DEF Promise!Next
<1>5. CASE Visited
  <2>1. UNCHANGED <<degree, calls, edges, local_queue, lpos, rpos>>
    BY <1>5 DEF Visited, queue
  <2>2. at \in {"pop", "visit"} <=> at' \in {"pop", "visit"}
    BY <1>5 DEF Visited
  <2> QED BY <2>1, <2>2 DEF Pending, Entries, Rest, Promise!vars
<1>6. CASE for_each
  BY <1>6, for_eachRefines
<1>7. CASE UNCHANGED queue_vars
  BY <1>7 DEF queue_vars, queue, Pending, Entries, Rest, Promise!vars
<1> QED BY <1>1, <1>2, <1>3, <1>4, <1>5, <1>6, <1>7 DEF QueueNext, Done

(***************************************************************************)
(* A local queue and the calls that get its rest are a worklist: every     *)
(* vertex that is found is searched exactly once for each time it was      *)
(* found, whichever call it is handed to.                                  *)
(***************************************************************************)
THEOREM QueueIsAWorklist == QueueSpec => ImplementsWorklist
<1>1. QueueInit => Promise!Init
  BY QueueInitRefines
<1>2. QueueInvariant /\ [QueueNext]_queue_vars /\ QueueInvariant' => [Promise!Next]_(Promise!vars)
  BY QueueStepRefines
<1> QED BY <1>1, <1>2, QueueIsRight, PTL DEF QueueSpec, ImplementsWorklist, Promise!Spec

-----------------------------------------------------------------------------
(* Pool. Buckets: a block of the bucket of a request is large enough for it. *)

LEMMA LeastElement ==
  ASSUME NEW S \in SUBSET Nat, S # {}
  PROVE  \E m \in S : \A d \in S : m <= d
<1>1. PICK m \in S : \A d \in S : ~ <<d, m>> \in OpToRel(<, Nat)
  BY WFMin, NatLessThanWellFounded, Zenon
<1>2. \A d \in S : ~ d < m
  BY <1>1 DEF OpToRel
<1> QED BY <1>2

LEMMA PowersGrow == \A k \in 0..(MaxBytes + Threshold1) : k + 1 <= 2 ^ k
<1> DEFINE Bad == {k \in 0..(MaxBytes + Threshold1) : ~ (k + 1 <= 2 ^ k)}
<1> SUFFICES ASSUME Bad # {} PROVE FALSE
  OBVIOUS
<1>1. Bad \in SUBSET Nat
  OBVIOUS
<1>2. PICK m \in Bad : \A d \in Bad : m <= d
  <2> HIDE DEF Bad
  <2> QED BY <1>1, LeastElement
<1>3. m \in 0..(MaxBytes + Threshold1) /\ m \in Nat /\ ~ (m + 1 <= 2 ^ m) /\ 2 ^ m \in Nat
  BY <1>2, PoolAssumption
<1>4. m # 0
  <2> HIDE DEF Bad
  <2> SUFFICES ASSUME m = 0 PROVE FALSE
    OBVIOUS
  <2>1. 2 ^ m = 1
    BY PoolAssumption, Zenon
  <2> QED BY <1>3, <2>1
<1> DEFINE j == m - 1
<1>5. j \in 0..(MaxBytes + Threshold1) /\ j + 1 = m /\ j < m /\ j \in Nat
  BY <1>3, <1>4, PoolAssumption
<1>6. j + 1 <= 2 ^ j
  BY <1>2, <1>5
<1>7. 2 ^ j \in Nat /\ 2 ^ (j + 1) = 2 * 2 ^ j
  BY <1>5, PoolAssumption
<1> QED BY <1>3, <1>5, <1>6, <1>7

LEMMA BitWidth ==
  ASSUME NEW x \in 1..MaxBytes
  PROVE  bit_width(x) \in 1..x /\ x < 2 ^ bit_width(x)
<1> DEFINE K == {k \in 1..x : x < 2 ^ k}
<1>1. x \in K
  BY PowersGrow, PoolAssumption
<1>2. K \in SUBSET Nat
  OBVIOUS
<1>3. PICK m \in K : \A d \in K : m <= d
  <2> HIDE DEF K
  <2> QED BY <1>1, <1>2, LeastElement
<1>4. m \in 1..x /\ x < 2 ^ m
  BY <1>3
<1>5. 2 ^ (m - 1) <= x
  <2>1. CASE m = 1
    BY <2>1, PoolAssumption
  <2>2. CASE m # 1
    <3>1. m - 1 \in 1..x /\ ~ m <= m - 1 /\ m - 1 \in 0..(MaxBytes + Threshold1)
      BY <1>4, <2>2, PoolAssumption
    <3>2. ~ (x < 2 ^ (m - 1)) /\ 2 ^ (m - 1) \in Nat
      BY <1>3, <3>1, PoolAssumption
    <3> QED BY <3>2
  <2> QED BY <2>1, <2>2
<1>6. \E k \in 1..x : 2 ^ (k - 1) <= x /\ x < 2 ^ k
  BY <1>4, <1>5
<1>7. x # 0
  OBVIOUS
<1> HIDE DEF K
<1>8. \E k \in 1..x : k = bit_width(x) /\ 2 ^ (k - 1) <= x /\ x < 2 ^ k
  BY <1>6, <1>7, Zenon DEF bit_width
<1> QED BY <1>8

LEMMA BucketsFit ==
  \A bytes \in 1..MaxBytes :
    /\ Bucket(bytes) \in Buckets /\ Bucket(bytes) \in 0..(MaxBytes + Threshold1)
    /\ bytes <= 2 ^ Bucket(bytes)
<1> SUFFICES ASSUME NEW bytes \in 1..MaxBytes
             PROVE  /\ Bucket(bytes) \in Buckets /\ Bucket(bytes) \in 0..(MaxBytes + Threshold1)
                    /\ bytes <= 2 ^ Bucket(bytes)
  OBVIOUS
<1>1. Bucket(bytes) \in Buckets
  BY DEF Buckets
<1>2. CASE bytes <= 2 ^ Threshold1
  <2>1. Bucket(bytes) = Threshold1
    BY <1>2 DEF Bucket
  <2>2. Threshold1 \in 0..(MaxBytes + Threshold1)
    BY PoolAssumption
  <2> QED BY <1>1, <1>2, <2>1, <2>2
<1>3. CASE ~ (bytes <= 2 ^ Threshold1)
  <2>1. Threshold1 \in 0..(MaxBytes + Threshold1) /\ 2 ^ Threshold1 \in Nat /\ Threshold1 \in Nat
    BY PoolAssumption
  <2>2. Threshold1 + 1 <= 2 ^ Threshold1
    BY <2>1, PowersGrow
  <2>3. bytes - 1 \in 1..MaxBytes /\ bytes \in Nat
    BY <1>3, <2>1, <2>2, PoolAssumption
  <2>4. bit_width(bytes - 1) \in 1..(bytes - 1) /\ bytes - 1 < 2 ^ bit_width(bytes - 1)
    BY <2>3, BitWidth
  <2>5. Bucket(bytes) = bit_width(bytes - 1)
    BY <1>3 DEF Bucket
  <2> DEFINE b == bit_width(bytes - 1)
  <2>6. b \in 0..(MaxBytes + Threshold1)
    BY <2>3, <2>4, PoolAssumption
  <2>7. 2 ^ b \in Nat
    BY <2>6, PoolAssumption
  <2>8. bytes <= 2 ^ b
    BY <2>3, <2>4, <2>7
  <2> QED BY <1>1, <2>5, <2>6, <2>8
<1> QED BY <1>2, <1>3

LEMMA SizesOfBuckets ==
  \A b \in Buckets : b \in Nat /\ 2 ^ b \in Nat /\ 2 ^ b # 0
<1> SUFFICES ASSUME NEW bytes \in 1..MaxBytes
             PROVE  Bucket(bytes) \in Nat /\ 2 ^ Bucket(bytes) \in Nat /\ 2 ^ Bucket(bytes) # 0
  BY DEF Buckets
<1>1. Bucket(bytes) \in 0..(MaxBytes + Threshold1) /\ bytes <= 2 ^ Bucket(bytes)
  BY BucketsFit
<1>2. 2 ^ Bucket(bytes) \in Nat
  BY <1>1, PoolAssumption
<1> QED BY <1>1, <1>2

-----------------------------------------------------------------------------
(***************************************************************************)
(* The inductive invariant.  Beyond what PoolInvariant says it has what    *)
(* each reference promises of the block it points to: its size, and        *)
(* whether its first word is a link.  That no two references point to one  *)
(* block is then kept step by step: a step only passes a block on.         *)
(***************************************************************************)
Single ==
  \A r, s \in Referrers :
    PointsTo(r) = PointsTo(s) /\ PointsTo(r) \in Blocks => r = s

Given == \A p \in Blocks : block_size[p] # 0 => \E r \in Referrers : PointsTo(r) = p

Marks ==
  /\ \A a \in Arrays : array[a].data # null => link[array[a].data] = UserData
  /\ \A w \in Workers :
       op[w].block # null =>
         (link[op[w].block] = UserData <=> op[w].at \notin {"take", "push"})
  /\ \A w \in Workers, b \in Buckets :
       local_cache[w][b] # null => link[local_cache[w][b]] # UserData
  /\ \A b \in Large : global_cache[b] # null => link[global_cache[b]] # UserData
  /\ \A q \in Blocks : link[q] \in Blocks => link[link[q]] # UserData

Sizes ==
  /\ \A a \in Arrays :
       array[a].data # null => block_size[array[a].data] = 2 ^ Bucket(array[a].size)
  /\ \A w \in Workers : op[w].block # null => block_size[op[w].block] = 2 ^ BucketOf(w)
  /\ \A w \in Workers, b \in Buckets :
       local_cache[w][b] # null => block_size[local_cache[w][b]] = 2 ^ b
  /\ \A b \in Large : global_cache[b] # null => block_size[global_cache[b]] = 2 ^ b
  /\ \A q \in Blocks : link[q] \in Blocks => block_size[link[q]] = block_size[q]
  /\ \A q \in Blocks : link[q] # UserData => block_size[q] # 0

OneHolder ==
  /\ \A w, u \in Workers : Locked(w) /\ Locked(u) => w = u
  /\ \A w \in Workers : Locked(w) => global_lock
  /\ global_lock => \E w \in Workers : Locked(w)

LargeAlone ==
  \A w \in Workers : \A b \in Large :
    local_cache[w][b] # null => link[local_cache[w][b]] = null

Sound ==
  /\ PoolTypeOK
  /\ CallsAreApart
  /\ OneHolder
  /\ HeadsStay
  /\ Marks
  /\ LargeAlone
  /\ Single
  /\ ListsHaveHeads
  /\ closed \/ Sizes
  /\ closed \/ Given
  /\ EverythingIsReturned

(* One step of a worker. *)
PoolStep(w) ==
  \/ Allocate(w) \/ Deallocate(w) \/ Unlock(w)
  \/ \E a \in Arrays :
       \/ \E bytes \in 0..MaxBytes : Construct(w, a, bytes)
       \/ \E other \in Arrays \ {a} : MoveConstruct(w, a, other)
       \/ \E other \in Arrays \cup {null} : Release(w, a, other)

-----------------------------------------------------------------------------
(* Types, and the calls. *)

LEMMA OnePoolCall ==
  ASSUME PoolTypeOK, CallsAreApart, NEW w \in Workers, op[w].at # "user"
  PROVE  /\ op[w].for \in Arrays /\ op[w].from \in Arrays \cup {null} /\ op[w].for # op[w].from
         /\ op[w].bytes \in 1..MaxBytes /\ op[w].block \in Pointer
         /\ BucketOf(w) \in Buckets /\ BucketOf(w) \in Nat
         /\ 2 ^ BucketOf(w) \in Nat /\ 2 ^ BucketOf(w) # 0
         /\ ~ closed /\ HasItsArrays(w)
<1>1. HasItsArrays(w) /\ ~ closed
  BY DEF CallsAreApart, Outside
<1>2. op[w].for \in Arrays /\ op[w].from \in Arrays \cup {null}
      /\ op[w].bytes \in 1..MaxBytes /\ op[w].block \in Pointer
  <2>1. op[w].bytes \in 0..MaxBytes /\ op[w].bytes # 0
    BY <1>1 DEF PoolTypeOK, HasItsArrays
  <2>2. op[w].bytes \in 1..MaxBytes
    BY <2>1, PoolAssumption
  <2> QED BY <1>1, <2>2 DEF PoolTypeOK, HasItsArrays
<1>3. op[w].for # op[w].from
  BY <1>1, PoolAssumption DEF HasItsArrays
<1>4. BucketOf(w) \in Buckets
  BY <1>2, BucketsFit DEF BucketOf
<1> QED BY <1>1, <1>2, <1>3, <1>4, SizesOfBuckets

LEMMA Assigning ==
  ASSUME PoolTypeOK, NEW a \in Arrays, NEW other \in Arrays \cup {null}, other # a
  PROVE  Assigned(a, other) =
           [c \in Arrays |-> IF c = a THEN IF other = null THEN NoArray ELSE array[other]
                             ELSE IF c = other THEN MovedFrom ELSE array[c]]
<1>1. array = [c \in Arrays |-> array[c]] /\ null \notin Arrays
  BY PoolAssumption DEF PoolTypeOK
<1> QED BY <1>1 DEF Assigned

LEMMA ArrayTypes ==
  ASSUME PoolTypeOK
  PROVE  /\ NoArray \in [alive : BOOLEAN, data : Pointer, size : 0..MaxBytes]
         /\ MovedFrom \in [alive : BOOLEAN, data : Pointer, size : 0..MaxBytes]
BY PoolAssumption DEF NoArray, MovedFrom, Pointer

ArrayType == [alive : BOOLEAN, data : Pointer, size : 0..MaxBytes]
CallType  == [at : CallPlaces, for : Arrays \cup {null}, block : Pointer,
              bytes : 0..MaxBytes, from : Arrays \cup {null}]

LEMMA OutsideIsACall == Outside \in CallType
BY PoolAssumption DEF Outside, CallType, CallPlaces, Pointer

LEMMA AssignedType ==
  ASSUME PoolTypeOK, NEW a \in Arrays, NEW other \in Arrays \cup {null}, other # a
  PROVE  Assigned(a, other) \in [Arrays -> ArrayType]
<1>1. array \in [Arrays -> ArrayType] /\ NoArray \in ArrayType /\ MovedFrom \in ArrayType
  BY ArrayTypes DEF PoolTypeOK, ArrayType
<1>2. Assigned(a, other) =
           [c \in Arrays |-> IF c = a THEN IF other = null THEN NoArray ELSE array[other]
                             ELSE IF c = other THEN MovedFrom ELSE array[c]]
  BY Assigning
<1> QED BY <1>1, <1>2

LEMMA StepTypes ==
  ASSUME PoolTypeOK, CallsAreApart, HeadsStay, Marks, NEW w \in Workers, PoolStep(w)
  PROVE  PoolTypeOK'
<1> DEFINE Types ==
      /\ block_size \in [Blocks -> {0} \cup {2 ^ b : b \in Buckets}]
      /\ link \in [Blocks -> Pointer \cup {UserData}]
      /\ local_cache \in [Workers -> [Buckets -> Pointer]]
      /\ global_cache \in [Large -> Pointer]
      /\ global_lock \in BOOLEAN
      /\ closed \in BOOLEAN
<1>1. Types /\ array \in [Arrays -> ArrayType] /\ op \in [Workers -> CallType]
  BY DEF PoolTypeOK, ArrayType, CallType
<1> SUFFICES Types' /\ array' \in [Arrays -> ArrayType] /\ op' \in [Workers -> CallType]
  BY DEF PoolTypeOK, ArrayType, CallType
<1>2. ASSUME NEW a \in Arrays, NEW bytes \in 0..MaxBytes, Construct(w, a, bytes)
      PROVE  Types' /\ array' \in [Arrays -> ArrayType] /\ op' \in [Workers -> CallType]
  <2>1. Types'
    BY <1>1, <1>2 DEF Construct, lists
  <2>2. [alive |-> TRUE, data |-> null, size |-> bytes] \in ArrayType
    BY DEF ArrayType, Pointer
  <2>3. array' \in [Arrays -> ArrayType]
    BY <1>1, <1>2, <2>2 DEF Construct
  <2>4. [Outside EXCEPT !.at = "allocate", !.for = a, !.bytes = bytes] \in CallType
    BY OutsideIsACall DEF CallType, CallPlaces
  <2>5. op' \in [Workers -> CallType]
    BY <1>1, <1>2, <2>4 DEF Construct
  <2> QED BY <2>1, <2>3, <2>5
<1>3. ASSUME NEW a \in Arrays, NEW other \in Arrays \ {a}, MoveConstruct(w, a, other)
      PROVE  Types' /\ array' \in [Arrays -> ArrayType] /\ op' \in [Workers -> CallType]
  BY <1>1, <1>3, AssignedType DEF MoveConstruct, lists
<1>4. ASSUME NEW a \in Arrays, NEW other \in Arrays \cup {null}, Release(w, a, other)
      PROVE  Types' /\ array' \in [Arrays -> ArrayType] /\ op' \in [Workers -> CallType]
  <2>1. Types' /\ other # a
    BY <1>1, <1>4, PoolAssumption DEF Release, lists
  <2>2. CASE array[a].data = null
    BY <1>1, <1>4, <2>1, <2>2, AssignedType DEF Release
  <2>3. CASE array[a].data # null
    <3>1. array' = [array EXCEPT ![a].data = null] /\ array[a] \in ArrayType
      BY <1>1, <1>4, <2>3 DEF Release
    <3>2. [array[a] EXCEPT !.data = null] \in ArrayType
      BY <3>1 DEF ArrayType, Pointer
    <3>3. array' \in [Arrays -> ArrayType]
      BY <1>1, <3>1, <3>2
    <3>4. [at |-> "deallocate", for |-> a, from |-> other,
           block |-> array[a].data, bytes |-> array[a].size] \in CallType
      BY <3>1 DEF ArrayType, CallType, CallPlaces
    <3>5. op' \in [Workers -> CallType]
      BY <1>1, <1>4, <2>3, <3>4 DEF Release
    <3> QED BY <2>1, <3>3, <3>5
  <2> QED BY <2>2, <2>3
<1>5. ASSUME op[w].at # "user", Finish(w)
      PROVE  array' \in [Arrays -> ArrayType] /\ op' \in [Workers -> CallType]
  BY <1>1, <1>5, OnePoolCall, AssignedType, OutsideIsACall DEF Finish
<1>6. ASSUME op[w].at # "user", NEW p \in Blocks, Obtain(w, p)
      PROVE  array' \in [Arrays -> ArrayType] /\ op' \in [Workers -> CallType]
  <2>1. op[w].for \in Arrays
    BY <1>6, OnePoolCall
  <2>2. [array[op[w].for] EXCEPT !.data = p] \in ArrayType
    BY <1>1, <2>1 DEF ArrayType, Pointer
  <2> QED BY <1>1, <1>6, <2>1, <2>2, OutsideIsACall DEF Obtain
<1>7. ASSUME NEW place \in CallPlaces, Goto(w, place)
      PROVE  op' \in [Workers -> CallType]
  <2>1. [op[w] EXCEPT !.at = place] \in CallType
    BY <1>1 DEF CallType
  <2> QED BY <1>1, <1>7, <2>1 DEF Goto
<1>8. ASSUME op[w].at # "user"
      PROVE  BucketOf(w) \in Buckets /\ op[w].block \in Pointer /\ HasItsArrays(w)
  BY <1>8, OnePoolCall
<1>9. CASE AllocateLocal(w)
  <2> DEFINE p == local_cache[w][BucketOf(w)]
  <2>1. op[w].at # "user" /\ BucketOf(w) \in Buckets
    BY <1>8, <1>9 DEF AllocateLocal
  <2>2. p \in Blocks /\ link[p] \in Pointer
    BY <1>1, <1>9, <2>1 DEF AllocateLocal, Marks, Pointer
  <2>3. array' \in [Arrays -> ArrayType] /\ op' \in [Workers -> CallType]
    BY <1>6, <1>9, <2>1, <2>2 DEF AllocateLocal
  <2>4. local_cache' \in [Workers -> [Buckets -> Pointer]]
    BY <1>1, <1>9, <2>1, <2>2 DEF AllocateLocal
  <2>5. link' \in [Blocks -> Pointer \cup {UserData}]
    BY <1>1, <1>9, <2>2 DEF AllocateLocal
  <2> QED BY <1>1, <1>9, <2>3, <2>4, <2>5 DEF AllocateLocal
<1>10. CASE AllocateTryLock(w)
  BY <1>1, <1>7, <1>10 DEF AllocateTryLock, lists, CallPlaces
<1>11. CASE GlobalRead(w)
  <2> DEFINE p == global_cache[BucketOf(w)]
             place == IF p = null THEN "unlock" ELSE "take"
  <2>1. p \in Pointer /\ place \in CallPlaces
    BY <1>1, <1>11 DEF GlobalRead, HeadsStay, Locked, CallPlaces
  <2>2. [op[w] EXCEPT !.at = place, !.block = p] \in CallType
    BY <1>1, <2>1 DEF CallType
  <2>3. op' = [op EXCEPT ![w] = [op[w] EXCEPT !.at = place, !.block = p]]
    BY <1>1, <1>11 DEF GlobalRead
  <2>4. op' \in [Workers -> CallType]
    BY <1>1, <2>2, <2>3
  <2> QED BY <1>1, <1>11, <2>4 DEF GlobalRead, lists
<1>12. CASE GlobalTake(w)
  <2> DEFINE p == op[w].block
  <2>1. p \in Blocks /\ link[p] \in Pointer
    <3>1. op[w].at = "take" /\ p \in Pointer /\ p # null
      BY <1>8, <1>12 DEF GlobalTake, HasItsArrays, WithBlock
    <3>2. link[p] # UserData
      BY <3>1 DEF Marks
    <3> QED BY <1>1, <3>1, <3>2 DEF Pointer
  <2>2. global_cache' \in [Large -> Pointer]
    BY <1>1, <1>12, <2>1 DEF GlobalTake
  <2>3. link' \in [Blocks -> Pointer \cup {UserData}]
    BY <1>1, <1>12, <2>1 DEF GlobalTake
  <2>4. op' \in [Workers -> CallType]
    BY <1>7, <1>12 DEF GlobalTake, CallPlaces
  <2> QED BY <1>1, <1>12, <2>2, <2>3, <2>4 DEF GlobalTake
<1>13. CASE New(w)
  BY <1>1, <1>6, <1>8, <1>13 DEF New, lists
<1>14. CASE DeallocateLocal(w)
  BY <1>1, <1>5, <1>8, <1>14 DEF DeallocateLocal
<1>15. CASE DeallocateTryLock(w)
  BY <1>1, <1>7, <1>15 DEF DeallocateTryLock, lists, CallPlaces
<1>16. CASE Delete(w)
  BY <1>1, <1>5, <1>16 DEF Delete, lists
<1>17. CASE GlobalLink(w)
  <2>1. global_cache[BucketOf(w)] \in Pointer
    BY <1>1, <1>17 DEF GlobalLink, HeadsStay, Locked
  <2>2. link' \in [Blocks -> Pointer \cup {UserData}]
    BY <1>1, <1>17, <2>1 DEF GlobalLink
  <2>3. op' \in [Workers -> CallType]
    BY <1>7, <1>17 DEF GlobalLink, CallPlaces
  <2> QED BY <1>1, <1>17, <2>2, <2>3 DEF GlobalLink, lists
<1>18. CASE GlobalPush(w)
  <2>1. op[w].block \in Pointer
    BY <1>8, <1>18 DEF GlobalPush
  <2>2. global_cache' \in [Large -> Pointer]
    BY <1>1, <1>18, <2>1 DEF GlobalPush
  <2>3. [op[w] EXCEPT !.at = "pushed", !.block = null] \in CallType
    BY <1>1 DEF CallType, CallPlaces, Pointer
  <2>4. op' = [op EXCEPT ![w] = [op[w] EXCEPT !.at = "pushed", !.block = null]]
    BY <1>1, <1>18 DEF GlobalPush
  <2>5. op' \in [Workers -> CallType]
    BY <1>1, <2>3, <2>4
  <2> QED BY <1>1, <1>18, <2>2, <2>5 DEF GlobalPush
<1>19. CASE Unlock(w)
  <2>1. op[w].at # "user" /\ op[w].block \in Pointer
    BY <1>8, <1>19 DEF Unlock
  <2>2. Types'
    BY <1>1, <1>19 DEF Unlock, lists
  <2>3. CASE op[w].at = "pushed"
    BY <1>5, <1>19, <2>1, <2>2, <2>3 DEF Unlock
  <2>4. CASE op[w].at # "pushed" /\ op[w].block # null
    <3>1. op[w].block \in Blocks /\ Obtain(w, op[w].block)
      BY <1>19, <2>1, <2>4 DEF Unlock, Pointer
    <3> QED BY <1>6, <2>1, <2>2, <3>1
  <2>5. CASE op[w].at # "pushed" /\ op[w].block = null
    <3>1. Goto(w, "new") /\ array' = array /\ "new" \in CallPlaces
      BY <1>19, <2>5 DEF Unlock, CallPlaces
    <3> QED BY <1>1, <1>7, <2>2, <3>1
  <2> QED BY <2>3, <2>4, <2>5
<1> QED BY <1>2, <1>3, <1>4, <1>9, <1>10, <1>11, <1>12, <1>13, <1>14, <1>15, <1>16, <1>17, <1>18, <1>19
        DEF PoolStep, Allocate, Deallocate

(* An Array that is alive and has a block is not empty. *)
Regular(c) == IF c.alive THEN c.data # null => c.size # 0 ELSE c.data = null

(***************************************************************************)
(* A step of worker w that works on Arrays of T only, which no other call  *)
(* has, leaves the other calls as they are.                                *)
(***************************************************************************)
LEMMA OthersGoOn ==
  ASSUME PoolTypeOK, PoolTypeOK', CallsAreApart, NEW w \in Workers, NEW T \in SUBSET Arrays,
         \A c \in Arrays \ T : array'[c] = array[c],
         \A u \in Workers \ {w} : op'[u] = op[u] /\ op[u].for \notin T /\ op[u].from \notin T,
         op'[w].for \in T \cup {null}, op'[w].from \in T \cup {null},
         IF op'[w].at = "user" THEN op'[w] = Outside ELSE HasItsArrays(w)',
         \A c \in T : Regular(array'[c]),
         ~ closed, closed' = closed
  PROVE  CallsAreApart'
<1>1. ASSUME NEW u \in Workers
      PROVE  IF op'[u].at = "user" THEN op'[u] = Outside ELSE HasItsArrays(u)'
  <2>1. CASE u = w
    BY <2>1
  <2>2. CASE u # w /\ op[u].at = "user"
    BY <2>2 DEF CallsAreApart
  <2>3. CASE u # w /\ op[u].at # "user"
    <3>1. HasItsArrays(u) /\ op[u].for \in Arrays /\ op[u].from \in Arrays \cup {null}
      BY <2>3, OnePoolCall
    <3>2. op'[u] = op[u] /\ array'[op[u].for] = array[op[u].for]
          /\ (op[u].from # null => array'[op[u].from] = array[op[u].from])
      BY <2>3, <3>1
    <3>3. HasItsArrays(u)'
      BY <3>1, <3>2 DEF HasItsArrays
    <3> QED BY <2>3, <3>2, <3>3
  <2> QED BY <2>1, <2>2, <2>3
<1>2. ASSUME NEW u \in Workers, NEW v \in Workers, u # v
      PROVE  {op'[u].for, op'[u].from} \cap {op'[v].for, op'[v].from} \subseteq {null}
  <2>1. null \notin T
    BY PoolAssumption
  <2>2. CASE u # w /\ v # w
    BY <1>2, <2>2 DEF CallsAreApart
  <2>3. CASE u = w
    BY <1>2, <2>1, <2>3
  <2>4. CASE v = w
    BY <1>2, <2>1, <2>4
  <2> QED BY <2>2, <2>3, <2>4
<1>3. ASSUME NEW c \in Arrays PROVE Regular(array'[c])
  <2>1. CASE c \in T
    BY <2>1
  <2>2. CASE c \notin T
    BY <2>2 DEF CallsAreApart, Regular
  <2> QED BY <2>1, <2>2
<1> QED BY <1>1, <1>2, <1>3, Zenon DEF CallsAreApart, Regular

(* The Arrays of a call are its own. *)
OfCall(w) == {op[w].for, op[w].from} \ {null}

LEMMA HisOwn ==
  ASSUME PoolTypeOK, CallsAreApart, NEW w \in Workers, op[w].at # "user"
  PROVE  /\ OfCall(w) \in SUBSET Arrays
         /\ \A u \in Workers \ {w} : op[u].for \notin OfCall(w) /\ op[u].from \notin OfCall(w)
         /\ op[w].for \in OfCall(w) \cup {null} /\ op[w].from \in OfCall(w) \cup {null}
         /\ \A c \in Arrays : Regular(array[c])
<1>1. op[w].for \in Arrays /\ op[w].from \in Arrays \cup {null}
  BY OnePoolCall
<1>2. ASSUME NEW u \in Workers \ {w}
      PROVE  op[u].for \notin OfCall(w) /\ op[u].from \notin OfCall(w)
  <2>1. {op[w].for, op[w].from} \cap {op[u].for, op[u].from} \subseteq {null}
    BY DEF CallsAreApart
  <2> QED BY <2>1 DEF OfCall
<1>3. \A c \in Arrays : Regular(array[c])
  BY DEF CallsAreApart, Regular
<1> QED BY <1>1, <1>2, <1>3 DEF OfCall

LEMMA CallGoesOn ==
  ASSUME PoolTypeOK, PoolTypeOK', CallsAreApart, NEW w \in Workers, op[w].at # "user",
         NEW place \in CallPlaces, NEW p, op' = [op EXCEPT ![w] = [op[w] EXCEPT !.at = place, !.block = p]],
         place # "user",
         place \in WithBlock => p # null,
         place \in WithoutBlock => p = null,
         place \in Allocating => op[w].at \in Allocating,
         array' = array, closed' = closed
  PROVE  CallsAreApart'
<1>1. op[w].for \in Arrays /\ HasItsArrays(w) /\ ~ closed
  BY OnePoolCall
<1>2. /\ op'[w].at = place /\ op'[w].block = p /\ op'[w].for = op[w].for
      /\ op'[w].from = op[w].from /\ op'[w].bytes = op[w].bytes
      /\ \A u \in Workers \ {w} : op'[u] = op[u]
  BY DEF PoolTypeOK
<1>3. HasItsArrays(w)'
  BY <1>1, <1>2 DEF HasItsArrays
<1> QED BY <1>1, <1>2, <1>3, HisOwn, OthersGoOn

LEMMA StepCalls ==
  ASSUME PoolTypeOK, PoolTypeOK', CallsAreApart, NEW w \in Workers, PoolStep(w)
  PROVE  CallsAreApart'
<1>1. op \in [Workers -> CallType] /\ array \in [Arrays -> ArrayType]
  BY DEF PoolTypeOK, CallType, ArrayType
<1>2. ASSUME op[w].at # "user", Finish(w), closed' = closed
      PROVE  CallsAreApart'
  <2>1. op[w].for \in Arrays /\ op[w].from \in Arrays \cup {null} /\ op[w].for # op[w].from
        /\ ~ closed /\ null \notin Arrays
    BY <1>2, OnePoolCall, PoolAssumption
  <2>2. op' = [op EXCEPT ![w] = Outside]
    BY <1>2 DEF Finish
  <2>3. op'[w] = Outside /\ op'[w].for = null /\ op'[w].from = null
        /\ \A u \in Workers \ {w} : op'[u] = op[u]
    BY <1>1, <2>2 DEF Outside
  <2>4. array' = [c \in Arrays |-> IF c = op[w].for THEN IF op[w].from = null THEN NoArray
                                                        ELSE array[op[w].from]
                             ELSE IF c = op[w].from THEN MovedFrom ELSE array[c]]
    BY <1>2, <2>1, Assigning DEF Finish
  <2>5. \A c \in Arrays \ OfCall(w) : array'[c] = array[c]
    BY <2>4, <2>1 DEF OfCall
  <2>6. Regular(NoArray) /\ Regular(MovedFrom)
    BY DEF Regular, NoArray, MovedFrom
  <2>7. \A c \in OfCall(w) : Regular(array'[c])
    BY <1>2, <2>1, <2>4, <2>6, HisOwn
  <2> QED BY <1>2, <2>1, <2>3, <2>5, <2>7, HisOwn, OthersGoOn DEF Outside
<1>3. ASSUME op[w].at # "user", op[w].at \in Allocating, NEW p, Obtain(w, p), closed' = closed
      PROVE  CallsAreApart'
  <2>1. op[w].for \in Arrays /\ ~ closed /\ HasItsArrays(w)
    BY <1>3, OnePoolCall
  <2>2. op' = [op EXCEPT ![w] = Outside]
    BY <1>3 DEF Obtain
  <2>3. op'[w] = Outside /\ op'[w].for = null /\ op'[w].from = null
        /\ \A u \in Workers \ {w} : op'[u] = op[u]
    BY <1>1, <2>2 DEF Outside
  <2>4. array' = [array EXCEPT ![op[w].for] = [array[op[w].for] EXCEPT !.data = p]]
    BY <1>1, <1>3, <2>1 DEF Obtain
  <2>5. \A c \in Arrays \ OfCall(w) : array'[c] = array[c]
    BY <1>1, <2>1, <2>4, PoolAssumption DEF OfCall
  <2>6. Regular(array'[op[w].for])
    BY <1>1, <1>3, <2>1, <2>4 DEF Regular, HasItsArrays, ArrayType
  <2>7. \A c \in OfCall(w) : Regular(array'[c])
    <3>1. op[w].from = null
      BY <1>3, <2>1 DEF HasItsArrays
    <3> QED BY <2>6, <3>1 DEF OfCall
  <2> QED BY <1>3, <2>1, <2>3, <2>5, <2>7, HisOwn, OthersGoOn DEF Outside
<1>4. ASSUME op[w].at # "user", NEW place \in CallPlaces, Goto(w, place), place # "user",
             place \in WithBlock => op[w].block # null,
             place \in WithoutBlock => op[w].block = null,
             place \in Allocating => op[w].at \in Allocating,
             array' = array, closed' = closed
      PROVE  CallsAreApart'
  <2>1. op' = [op EXCEPT ![w] = [op[w] EXCEPT !.at = place, !.block = op[w].block]]
    BY <1>1, <1>4 DEF Goto, CallType
  <2> QED BY <1>4, <2>1, CallGoesOn
<1>5. ASSUME op[w].at # "user" PROVE HasItsArrays(w)
  BY <1>5, OnePoolCall
<1>6. CASE AllocateLocal(w)
  BY <1>3, <1>6 DEF AllocateLocal, Allocating
<1>7. CASE AllocateTryLock(w)
  <2>1. op[w].at # "user" /\ op[w].at \in Allocating /\ op[w].block = null
    BY <1>5, <1>7 DEF AllocateTryLock, Allocating, HasItsArrays, WithoutBlock
  <2>2. (Goto(w, "pop") \/ Goto(w, "new")) /\ array' = array /\ closed' = closed
    BY <1>7 DEF AllocateTryLock
  <2> QED BY <1>4, <2>1, <2>2 DEF CallPlaces, WithBlock
<1>8. CASE GlobalRead(w)
  <2> DEFINE p == global_cache[BucketOf(w)]
             place == IF p = null THEN "unlock" ELSE "take"
  <2>1. op[w].at # "user" /\ op[w].at \in Allocating
    BY <1>8 DEF GlobalRead, Allocating
  <2>2. op' = [op EXCEPT ![w] = [op[w] EXCEPT !.at = place, !.block = p]]
    BY <1>1, <1>8 DEF GlobalRead
  <2>3. place \in CallPlaces /\ place # "user" /\ (place \in WithBlock => p # null)
        /\ (place \in WithoutBlock => p = null)
    BY DEF CallPlaces, WithBlock, WithoutBlock
  <2>4. array' = array /\ closed' = closed
    BY <1>8 DEF GlobalRead
  <2> HIDE DEF p, place
  <2> QED BY <2>1, <2>2, <2>3, <2>4, CallGoesOn
<1>9. CASE GlobalTake(w)
  <2>1. op[w].at # "user" /\ op[w].at \in Allocating
    BY <1>9 DEF GlobalTake, Allocating
  <2> QED BY <1>4, <1>9, <2>1 DEF GlobalTake, CallPlaces, WithBlock, WithoutBlock
<1>10. CASE New(w)
  BY <1>3, <1>10 DEF New, Allocating
<1>11. CASE DeallocateLocal(w)
  BY <1>2, <1>11 DEF DeallocateLocal
<1>12. CASE DeallocateTryLock(w)
  <2>1. op[w].at # "user" /\ op[w].block # null
    BY <1>5, <1>12 DEF DeallocateTryLock, HasItsArrays, WithBlock
  <2> QED BY <1>4, <1>12, <2>1 DEF DeallocateTryLock, CallPlaces, WithoutBlock, Allocating
<1>13. CASE Delete(w)
  BY <1>2, <1>13 DEF Delete
<1>14. CASE GlobalLink(w)
  <2>1. op[w].at # "user" /\ op[w].block # null
    BY <1>5, <1>14 DEF GlobalLink, HasItsArrays, WithBlock
  <2> QED BY <1>4, <1>14, <2>1 DEF GlobalLink, CallPlaces, WithoutBlock, Allocating
<1>15. CASE GlobalPush(w)
  <2>1. op[w].at # "user" /\ array' = array /\ closed' = closed
    BY <1>15 DEF GlobalPush
  <2>2. op' = [op EXCEPT ![w] = [op[w] EXCEPT !.at = "pushed", !.block = null]]
    BY <1>1, <1>15 DEF GlobalPush
  <2>3. "pushed" \in CallPlaces /\ "pushed" \notin WithBlock /\ "pushed" \notin Allocating
    BY DEF CallPlaces, WithBlock, Allocating
  <2> QED BY <2>1, <2>2, <2>3, CallGoesOn
<1>16. CASE Unlock(w)
  <2>1. op[w].at # "user" /\ closed' = closed
    BY <1>16 DEF Unlock
  <2>2. CASE op[w].at = "pushed"
    BY <1>2, <1>16, <2>1, <2>2 DEF Unlock
  <2>3. CASE op[w].at # "pushed" /\ op[w].block # null
    <3>1. op[w].at \in Allocating /\ Obtain(w, op[w].block)
      BY <1>16, <2>3 DEF Unlock, Allocating
    <3> QED BY <1>3, <2>1, <3>1
  <2>4. CASE op[w].at # "pushed" /\ op[w].block = null
    <3>1. op[w].at \in Allocating /\ Goto(w, "new") /\ array' = array
      BY <1>16, <2>4 DEF Unlock, Allocating
    <3> QED BY <1>4, <2>1, <2>4, <3>1 DEF CallPlaces, WithBlock
  <2> QED BY <2>2, <2>3, <2>4
<1>17. ASSUME NEW a \in Arrays, NEW bytes \in 0..MaxBytes, Construct(w, a, bytes)
       PROVE  CallsAreApart'
  <2>1. ~ closed /\ closed' = closed /\ a # null
    BY <1>17, PoolAssumption DEF Construct
  <2>2. \A u \in Workers \ {w} : op'[u] = op[u] /\ op[u].for \notin {a} /\ op[u].from \notin {a}
    BY <1>1, <1>17 DEF Construct, Available
  <2>3. \A c \in Arrays \ {a} : array'[c] = array[c]
    BY <1>1, <1>17 DEF Construct
  <2>4. array'[a] = [alive |-> TRUE, data |-> null, size |-> bytes]
    BY <1>1, <1>17 DEF Construct
  <2>5. Regular(array'[a])
    BY <2>4 DEF Regular
  <2>6. CASE bytes = 0
    <3>1. op'[w] = Outside
      BY <1>17, <2>6 DEF Construct
    <3>2. op'[w].for = null /\ op'[w].from = null /\ op'[w].at = "user"
      BY <3>1 DEF Outside
    <3> QED BY <2>1, <2>2, <2>3, <2>5, <3>1, <3>2, OthersGoOn
  <2>7. CASE bytes # 0
    <3>1. op'[w] = [Outside EXCEPT !.at = "allocate", !.for = a, !.bytes = bytes]
      BY <1>1, <1>17, <2>7 DEF Construct
    <3>2. /\ op'[w].at = "allocate" /\ op'[w].for = a /\ op'[w].bytes = bytes
          /\ op'[w].block = null /\ op'[w].from = null
      BY <3>1 DEF Outside
    <3>3. HasItsArrays(w)'
      BY <2>4, <2>7, <3>2 DEF HasItsArrays, WithBlock
    <3> QED BY <2>1, <2>2, <2>3, <2>5, <3>2, <3>3, OthersGoOn
  <2> QED BY <2>6, <2>7
<1>18. ASSUME NEW a \in Arrays, NEW other \in Arrays \cup {null}, other # a,
              ~ closed, closed' = closed, op[w] = Outside, op' = op,
              Available(a), other # null => array[other].alive /\ Available(other),
              array' = Assigned(a, other)
       PROVE  CallsAreApart'
  <2> DEFINE T == {a, other} \ {null}
  <2>1. array' = [c \in Arrays |-> IF c = a THEN IF other = null THEN NoArray ELSE array[other]
                                    ELSE IF c = other THEN MovedFrom ELSE array[c]]
    BY <1>18, Assigning
  <2>2. null \notin Arrays /\ T \in SUBSET Arrays
    BY PoolAssumption
  <2>3. \A u \in Workers \ {w} : op'[u] = op[u] /\ op[u].for \notin T /\ op[u].from \notin T
    BY <1>18, <2>2 DEF Available
  <2>4. \A c \in Arrays \ T : array'[c] = array[c]
    BY <2>1, <2>2
  <2>5. Regular(NoArray) /\ Regular(MovedFrom) /\ \A c \in Arrays : Regular(array[c])
    BY DEF Regular, NoArray, MovedFrom, CallsAreApart
  <2>6. \A c \in T : Regular(array'[c])
    BY <1>18, <2>1, <2>2, <2>5
  <2>7. op'[w] = Outside /\ op'[w].for = null /\ op'[w].from = null /\ op'[w].at = "user"
    BY <1>18 DEF Outside
  <2> HIDE DEF T
  <2> QED BY <1>18, <2>2, <2>3, <2>4, <2>6, <2>7, OthersGoOn
<1>19. ASSUME NEW a \in Arrays, NEW other \in Arrays \ {a}, MoveConstruct(w, a, other)
       PROVE  CallsAreApart'
  BY <1>18, <1>19 DEF MoveConstruct
<1>20. ASSUME NEW a \in Arrays, NEW other \in Arrays \cup {null}, Release(w, a, other)
       PROVE  CallsAreApart'
  <2>1. other # a /\ null \notin Arrays
    BY <1>20, PoolAssumption DEF Release
  <2>2. CASE array[a].data = null
    BY <1>18, <1>20, <2>1, <2>2 DEF Release
  <2>3. CASE array[a].data # null
    <3> DEFINE T == {a, other} \ {null}
    <3>1. ~ closed /\ closed' = closed /\ T \in SUBSET Arrays /\ a \in T
      BY <1>20, <2>1 DEF Release
    <3>2. op' = [op EXCEPT ![w] = [at |-> "deallocate", for |-> a, from |-> other,
                        block |-> array[a].data, bytes |-> array[a].size]]
      BY <1>20, <2>3 DEF Release
    <3>3. \A u \in Workers \ {w} : op'[u] = op[u] /\ op[u].for \notin T /\ op[u].from \notin T
      BY <1>1, <1>20, <2>1, <3>2 DEF Release, Available
    <3>4. array' = [array EXCEPT ![a] = [array[a] EXCEPT !.data = null]]
      BY <1>1, <1>20, <2>3 DEF Release
    <3>5. /\ array'[a].data = null /\ array'[a].alive
          /\ \A c \in Arrays \ {a} : array'[c] = array[c]
      BY <1>1, <1>20, <3>4 DEF Release, ArrayType
    <3>6. /\ op'[w].at = "deallocate" /\ op'[w].for = a /\ op'[w].from = other
          /\ op'[w].block = array[a].data /\ op'[w].bytes = array[a].size
      BY <1>1, <3>2
    <3>7. HasItsArrays(w)'
      BY <1>20, <2>1, <2>3, <3>5, <3>6 DEF HasItsArrays, Release, WithoutBlock, Allocating, CallsAreApart
    <3>8. \A c \in T : Regular(array'[c])
      BY <2>1, <3>5 DEF Regular, CallsAreApart
    <3>9. \A c \in Arrays \ T : array'[c] = array[c]
      BY <3>1, <3>5
    <3>10. op'[w].for \in T \cup {null} /\ op'[w].from \in T \cup {null} /\ op'[w].at # "user"
      BY <3>6, <3>1
    <3> HIDE DEF T
    <3> QED BY <3>1, <3>3, <3>7, <3>8, <3>9, <3>10, OthersGoOn
  <2> QED BY <2>2, <2>3
<1> QED BY <1>6, <1>7, <1>8, <1>9, <1>10, <1>11, <1>12, <1>13, <1>14, <1>15, <1>16, <1>17, <1>19, <1>20
        DEF PoolStep, Allocate, Deallocate

-----------------------------------------------------------------------------
(* References, by kind. *)
Arr(a)    == <<"array", a>>
Wrk(w)    == <<"worker", w>>
Loc(w, b) == <<"local", <<w, b>> >>
Glo(b)    == <<"global", b>>
Lnk(p)    == <<"link", p>>

LEMMA Kinds ==
  ASSUME NEW r
  PROVE  r \in Referrers <=>
           \/ \E a \in Arrays : r = Arr(a)
           \/ \E w \in Workers : r = Wrk(w)
           \/ \E w \in Workers, b \in Buckets : r = Loc(w, b)
           \/ \E b \in Large : r = Glo(b)
           \/ \E p \in Blocks : r = Lnk(p)
BY DEF Referrers, Arr, Wrk, Loc, Glo, Lnk

LEMMA KindsDiffer ==
  /\ \A a, w : Arr(a) # Wrk(w)
  /\ \A a, w, b : Arr(a) # Loc(w, b)
  /\ \A a, b : Arr(a) # Glo(b)
  /\ \A a, p : Arr(a) # Lnk(p)
  /\ \A w, u, b : Wrk(w) # Loc(u, b)
  /\ \A w, b : Wrk(w) # Glo(b)
  /\ \A w, p : Wrk(w) # Lnk(p)
  /\ \A w, b, c : Loc(w, b) # Glo(c)
  /\ \A w, b, p : Loc(w, b) # Lnk(p)
  /\ \A b, p : Glo(b) # Lnk(p)
  /\ \A a, c : Arr(a) = Arr(c) => a = c
  /\ \A w, u : Wrk(w) = Wrk(u) => w = u
  /\ \A w, b, u, c : Loc(w, b) = Loc(u, c) => w = u /\ b = c
  /\ \A b, c : Glo(b) = Glo(c) => b = c
  /\ \A p, q : Lnk(p) = Lnk(q) => p = q
BY DEF Arr, Wrk, Loc, Glo, Lnk

(* Where they point, now and after a step. *)
LEMMA Pointing ==
  /\ \A a : PointsTo(Arr(a)) = array[a].data /\ PointsTo(Arr(a))' = array'[a].data
  /\ \A w : PointsTo(Wrk(w)) = (IF op[w].at = "take" THEN null ELSE op[w].block)
            /\ PointsTo(Wrk(w))' = (IF op'[w].at = "take" THEN null ELSE op'[w].block)
  /\ \A w, b : PointsTo(Loc(w, b)) = local_cache[w][b] /\ PointsTo(Loc(w, b))' = local_cache'[w][b]
  /\ \A b : PointsTo(Glo(b)) = global_cache[b] /\ PointsTo(Glo(b))' = global_cache'[b]
  /\ \A p : PointsTo(Lnk(p)) = (IF link[p] \in Blocks /\ ~ IsPushed(p) THEN link[p] ELSE null)
            /\ PointsTo(Lnk(p))' = (IF link'[p] \in Blocks /\ ~ IsPushed(p)' THEN link'[p] ELSE null)
<1>1. ASSUME NEW a
      PROVE  PointsTo(Arr(a)) = array[a].data /\ PointsTo(Arr(a))' = array'[a].data
  BY DEF PointsTo, Arr
<1>2. ASSUME NEW w
      PROVE  PointsTo(Wrk(w)) = (IF op[w].at = "take" THEN null ELSE op[w].block)
             /\ PointsTo(Wrk(w))' = (IF op'[w].at = "take" THEN null ELSE op'[w].block)
  BY DEF PointsTo, Wrk
<1>3. ASSUME NEW w, NEW b
      PROVE  PointsTo(Loc(w, b)) = local_cache[w][b] /\ PointsTo(Loc(w, b))' = local_cache'[w][b]
  BY DEF PointsTo, Loc
<1>4. ASSUME NEW b
      PROVE  PointsTo(Glo(b)) = global_cache[b] /\ PointsTo(Glo(b))' = global_cache'[b]
  BY DEF PointsTo, Glo
<1>5. ASSUME NEW p
      PROVE  PointsTo(Lnk(p)) = (IF link[p] \in Blocks /\ ~ IsPushed(p) THEN link[p] ELSE null)
             /\ PointsTo(Lnk(p))' = (IF link'[p] \in Blocks /\ ~ IsPushed(p)' THEN link'[p] ELSE null)
  BY DEF PointsTo, Lnk
<1> QED BY <1>1, <1>2, <1>3, <1>4, <1>5

(* The references to one block are one reference. *)
LEMMA OneReference ==
  ASSUME PoolTypeOK, Single, NEW r \in Referrers, NEW s \in Referrers, r # s,
         PointsTo(r) \in Blocks
  PROVE  PointsTo(r) # PointsTo(s)
BY DEF Single

LEMMA Refer ==
  /\ \A a \in Arrays : Arr(a) \in Referrers
  /\ \A w \in Workers : Wrk(w) \in Referrers
  /\ \A w \in Workers, b \in Buckets : Loc(w, b) \in Referrers
  /\ \A b \in Large : Glo(b) \in Referrers
  /\ \A p \in Blocks : Lnk(p) \in Referrers
BY Kinds

(* A block in the hands of a worker. *)
LEMMA HeldAlone ==
  ASSUME PoolTypeOK, Single, HeadsStay, NEW w \in Workers, op[w].block # null, op[w].at # "take"
  PROVE  /\ \A a \in Arrays : array[a].data # op[w].block
         /\ \A u \in Workers \ {w} : op[u].block # op[w].block
         /\ \A u \in Workers, b \in Buckets : local_cache[u][b] # op[w].block
         /\ \A b \in Large : global_cache[b] # op[w].block
         /\ \A q \in Blocks : link[q] # op[w].block
<1>1. PointsTo(Wrk(w)) = op[w].block /\ op[w].block \in Blocks /\ Wrk(w) \in Referrers
  BY Pointing, Refer DEF PoolTypeOK, Pointer
<1>2. \A a \in Arrays : array[a].data # op[w].block
  BY <1>1, OneReference, Pointing, Refer, KindsDiffer
<1>3. \A u \in Workers, b \in Buckets : local_cache[u][b] # op[w].block
  BY <1>1, OneReference, Pointing, Refer, KindsDiffer
<1>4. \A b \in Large : global_cache[b] # op[w].block
  BY <1>1, OneReference, Pointing, Refer, KindsDiffer
<1>5. ASSUME NEW u \in Workers \ {w} PROVE op[u].block # op[w].block
  <2>1. CASE op[u].at = "take"
    BY <1>4, <2>1 DEF HeadsStay, Locked
  <2>2. CASE op[u].at # "take"
    <3>1. PointsTo(Wrk(u)) = op[u].block /\ Wrk(u) \in Referrers /\ Wrk(u) # Wrk(w)
      BY <2>2, Pointing, Refer, KindsDiffer
    <3> QED BY <1>1, <3>1, OneReference
  <2> QED BY <2>1, <2>2
<1>6. ASSUME NEW q \in Blocks PROVE link[q] # op[w].block
  <2>1. CASE IsPushed(q)
    <3>1. PICK u \in Workers : op[u].at = "push" /\ op[u].block = q
      BY <2>1 DEF IsPushed
    <3>2. link[q] = global_cache[BucketOf(u)] /\ BucketOf(u) \in Large
      BY <3>1 DEF HeadsStay, Locked
    <3> QED BY <1>4, <3>2
  <2>2. CASE ~ IsPushed(q) /\ link[q] \in Blocks
    <3>1. PointsTo(Lnk(q)) = link[q] /\ Lnk(q) \in Referrers /\ Lnk(q) # Wrk(w)
      BY <2>2, Pointing, Refer, KindsDiffer
    <3> QED BY <1>1, <3>1, OneReference
  <2> QED BY <1>1, <2>1, <2>2
<1> QED BY <1>2, <1>3, <1>4, <1>5, <1>6

(* The first block of a worker's list. *)
LEMMA CachedAlone ==
  ASSUME PoolTypeOK, Single, HeadsStay, NEW w \in Workers, NEW b \in Buckets,
         local_cache[w][b] # null
  PROVE  /\ \A a \in Arrays : array[a].data # local_cache[w][b]
         /\ \A u \in Workers : op[u].block # local_cache[w][b]
         /\ \A u \in Workers, c \in Buckets :
              u # w \/ c # b => local_cache[u][c] # local_cache[w][b]
         /\ \A c \in Large : global_cache[c] # local_cache[w][b]
         /\ \A q \in Blocks : link[q] # local_cache[w][b]
<1> DEFINE h == local_cache[w][b]
<1>1. PointsTo(Loc(w, b)) = h /\ h \in Blocks /\ Loc(w, b) \in Referrers
  BY Pointing, Refer DEF PoolTypeOK, Pointer
<1> HIDE DEF h
<1>2. \A a \in Arrays : array[a].data # h
  BY <1>1, OneReference, Pointing, Refer, KindsDiffer
<1>3. ASSUME NEW u \in Workers, NEW c \in Buckets, u # w \/ c # b
      PROVE  local_cache[u][c] # h
  <2>1. Loc(u, c) # Loc(w, b) /\ Loc(u, c) \in Referrers /\ PointsTo(Loc(u, c)) = local_cache[u][c]
    BY <1>3, Pointing, Refer, KindsDiffer
  <2> QED BY <1>1, <2>1, OneReference
<1>4. \A c \in Large : global_cache[c] # h
  BY <1>1, OneReference, Pointing, Refer, KindsDiffer
<1>5. ASSUME NEW u \in Workers PROVE op[u].block # h
  <2>1. CASE op[u].at = "take"
    BY <1>4, <2>1 DEF HeadsStay, Locked
  <2>2. CASE op[u].at # "take"
    <3>1. PointsTo(Wrk(u)) = op[u].block /\ Wrk(u) \in Referrers /\ Wrk(u) # Loc(w, b)
      BY <2>2, Pointing, Refer, KindsDiffer
    <3> QED BY <1>1, <3>1, OneReference
  <2> QED BY <2>1, <2>2
<1>6. ASSUME NEW q \in Blocks PROVE link[q] # h
  <2>1. CASE IsPushed(q)
    <3>1. PICK u \in Workers : op[u].at = "push" /\ op[u].block = q
      BY <2>1 DEF IsPushed
    <3>2. link[q] = global_cache[BucketOf(u)] /\ BucketOf(u) \in Large
      BY <3>1 DEF HeadsStay, Locked
    <3> QED BY <1>4, <3>2
  <2>2. CASE ~ IsPushed(q) /\ link[q] \in Blocks
    <3>1. PointsTo(Lnk(q)) = link[q] /\ Lnk(q) \in Referrers /\ Lnk(q) # Loc(w, b)
      BY <2>2, Pointing, Refer, KindsDiffer
    <3> QED BY <1>1, <3>1, OneReference
  <2> QED BY <1>1, <2>1, <2>2
<1> QED BY <1>2, <1>3, <1>4, <1>5, <1>6 DEF h

(* The first block of a global list, while no other worker has the lock. *)
LEMMA HeadAlone ==
  ASSUME PoolTypeOK, Single, HeadsStay, OneHolder, NEW w \in Workers, op[w].at = "take",
         op[w].block # null
  PROVE  /\ \A a \in Arrays : array[a].data # op[w].block
         /\ \A u \in Workers \ {w} : op[u].block # op[w].block
         /\ \A u \in Workers, c \in Buckets : local_cache[u][c] # op[w].block
         /\ \A c \in Large : c # BucketOf(w) => global_cache[c] # op[w].block
         /\ \A q \in Blocks : link[q] # op[w].block
<1> DEFINE h == global_cache[BucketOf(w)]
<1>1. /\ BucketOf(w) \in Large /\ op[w].block = h
      /\ PointsTo(Glo(BucketOf(w))) = h /\ h \in Blocks /\ Glo(BucketOf(w)) \in Referrers
  BY Pointing, Refer DEF PoolTypeOK, Pointer, HeadsStay, Locked
<1> DEFINE g == Glo(BucketOf(w))
<1> HIDE DEF h
<1>2. \A a \in Arrays : array[a].data # h
  BY <1>1, OneReference, Pointing, Refer, KindsDiffer
<1>3. \A u \in Workers, c \in Buckets : local_cache[u][c] # h
  BY <1>1, OneReference, Pointing, Refer, KindsDiffer
<1>4. ASSUME NEW c \in Large, c # BucketOf(w) PROVE global_cache[c] # h
  <2>1. Glo(c) # g /\ Glo(c) \in Referrers /\ PointsTo(Glo(c)) = global_cache[c]
    BY <1>4, Pointing, Refer, KindsDiffer
  <2> QED BY <1>1, <2>1, OneReference
<1>5. ASSUME NEW u \in Workers \ {w} PROVE op[u].block # h /\ op[u].at # "push"
  <2>1. op[u].at # "take" /\ op[u].at # "push"
    BY DEF OneHolder, Locked
  <2>2. PointsTo(Wrk(u)) = op[u].block /\ Wrk(u) \in Referrers /\ Wrk(u) # g
    BY <2>1, Pointing, Refer, KindsDiffer
  <2> QED BY <1>1, <2>1, <2>2, OneReference
<1>6. ASSUME NEW q \in Blocks PROVE link[q] # h
  <2>1. ~ IsPushed(q)
    BY <1>5 DEF IsPushed
  <2>2. CASE link[q] \in Blocks
    <3>1. PointsTo(Lnk(q)) = link[q] /\ Lnk(q) \in Referrers /\ Lnk(q) # g
      BY <2>1, <2>2, Pointing, Refer, KindsDiffer
    <3> QED BY <1>1, <3>1, OneReference
  <2> QED BY <1>1, <2>2
<1> QED BY <1>1, <1>2, <1>3, <1>4, <1>5, <1>6

-----------------------------------------------------------------------------
(* A step of a worker is its own. *)
LEMMA OneMoves ==
  ASSUME PoolTypeOK, CallsAreApart, NEW w \in Workers, PoolStep(w)
  PROVE  /\ \A u \in Workers \ {w} : op'[u] = op[u] /\ local_cache'[u] = local_cache[u]
         /\ closed' = closed /\ ~ closed
<1>1. op \in [Workers -> CallType] /\ local_cache \in [Workers -> [Buckets -> Pointer]]
  BY DEF PoolTypeOK, CallType
<1> DEFINE Goal == /\ \A u \in Workers \ {w} : op'[u] = op[u] /\ local_cache'[u] = local_cache[u]
                   /\ closed' = closed /\ ~ closed
<1>2. op[w].at # "user" => ~ closed
  BY OnePoolCall
<1>3. CASE AllocateLocal(w)
  BY <1>1, <1>2, <1>3 DEF AllocateLocal, Obtain
<1>4. CASE AllocateTryLock(w)
  BY <1>1, <1>2, <1>4 DEF AllocateTryLock, Goto, lists
<1>5. CASE GlobalRead(w)
  BY <1>1, <1>2, <1>5 DEF GlobalRead, lists
<1>6. CASE GlobalTake(w)
  BY <1>1, <1>2, <1>6 DEF GlobalTake, Goto
<1>7. CASE New(w)
  BY <1>1, <1>2, <1>7 DEF New, Obtain, lists
<1>8. CASE DeallocateLocal(w)
  BY <1>1, <1>2, <1>8 DEF DeallocateLocal, Finish
<1>9. CASE DeallocateTryLock(w)
  BY <1>1, <1>2, <1>9 DEF DeallocateTryLock, Goto, lists
<1>10. CASE Delete(w)
  BY <1>1, <1>2, <1>10 DEF Delete, Finish, lists
<1>11. CASE GlobalLink(w)
  BY <1>1, <1>2, <1>11 DEF GlobalLink, Goto, lists
<1>12. CASE GlobalPush(w)
  BY <1>1, <1>2, <1>12 DEF GlobalPush
<1>13. CASE Unlock(w)
  BY <1>1, <1>2, <1>13 DEF Unlock, Finish, Obtain, Goto, lists
<1>14. ASSUME NEW a \in Arrays, NEW bytes \in 0..MaxBytes, Construct(w, a, bytes)
       PROVE  Goal
  BY <1>1, <1>14 DEF Construct, lists
<1>15. ASSUME NEW a \in Arrays, NEW other \in Arrays \ {a}, MoveConstruct(w, a, other)
       PROVE  Goal
  BY <1>1, <1>15 DEF MoveConstruct, lists
<1>16. ASSUME NEW a \in Arrays, NEW other \in Arrays \cup {null}, Release(w, a, other)
       PROVE  Goal
  BY <1>1, <1>16 DEF Release, lists
<1> QED BY <1>3, <1>4, <1>5, <1>6, <1>7, <1>8, <1>9, <1>10, <1>11, <1>12, <1>13, <1>14, <1>15, <1>16
        DEF PoolStep, Allocate, Deallocate

LEMMA StillHeld ==
  ASSUME PoolTypeOK, OneHolder, NEW w \in Workers,
         \A u \in Workers \ {w} : op'[u] = op[u],
         global_lock' = global_lock, Locked(w)' <=> Locked(w)
  PROVE  OneHolder'
<1>1. \A u \in Workers : Locked(u)' <=> Locked(u)
  BY DEF Locked
<1> QED BY <1>1 DEF OneHolder

LEMMA Taken ==
  ASSUME PoolTypeOK, OneHolder, NEW w \in Workers,
         \A u \in Workers \ {w} : op'[u] = op[u],
         ~ global_lock, global_lock' = TRUE, Locked(w)'
  PROVE  OneHolder'
<1>1. \A u \in Workers : Locked(u)' <=> u = w
  BY DEF Locked, OneHolder
<1> QED BY <1>1 DEF OneHolder

LEMMA GivenUp ==
  ASSUME PoolTypeOK, OneHolder, NEW w \in Workers, Locked(w),
         \A u \in Workers \ {w} : op'[u] = op[u],
         global_lock' = FALSE, ~ Locked(w)'
  PROVE  OneHolder'
<1>1. \A u \in Workers : ~ Locked(u)'
  BY DEF Locked, OneHolder
<1> QED BY <1>1 DEF OneHolder

LEMMA StepHolder ==
  ASSUME PoolTypeOK, CallsAreApart, OneHolder, NEW w \in Workers, PoolStep(w)
  PROVE  OneHolder'
<1>1. op \in [Workers -> CallType] /\ \A u \in Workers \ {w} : op'[u] = op[u]
  BY OneMoves DEF PoolTypeOK, CallType
<1>2. ASSUME NEW place, Goto(w, place)
      PROVE  op'[w].at = place
  BY <1>1, <1>2 DEF Goto, CallType
<1>3. ASSUME Finish(w) \/ \E p : Obtain(w, p)
      PROVE  op'[w].at = "user"
  <2>1. op' = [op EXCEPT ![w] = Outside]
    BY <1>3 DEF Finish, Obtain
  <2>2. op'[w] = Outside
    BY <1>1, <2>1
  <2> QED BY <2>2 DEF Outside
<1>4. CASE AllocateLocal(w)
  <2>1. op'[w].at = "user" /\ op[w].at = "allocate" /\ global_lock' = global_lock
    BY <1>3, <1>4 DEF AllocateLocal
  <2>2. ~ Locked(w)' /\ ~ Locked(w)
    BY <2>1 DEF Locked
  <2> QED BY <1>1, <2>1, <2>2, StillHeld
<1>5. CASE AllocateTryLock(w)
  <2>1. CASE Goto(w, "pop") /\ global_lock' = TRUE /\ ~ global_lock
    <3>1. Locked(w)'
      BY <1>2, <2>1 DEF Locked
    <3> QED BY <1>1, <2>1, <3>1, Taken
  <2>2. CASE Goto(w, "new") /\ global_lock' = global_lock
    <3>1. ~ Locked(w)' /\ ~ Locked(w)
      BY <1>2, <1>5, <2>2 DEF Locked, AllocateTryLock
    <3> QED BY <1>1, <2>2, <3>1, StillHeld
  <2> QED BY <1>5, <2>1, <2>2 DEF AllocateTryLock, TryLock
<1>6. CASE GlobalRead(w)
  <2>1. op'[w].at \in {"unlock", "take"} /\ op[w].at = "pop" /\ global_lock' = global_lock
    BY <1>1, <1>6 DEF GlobalRead, CallType
  <2>2. Locked(w)' /\ Locked(w)
    BY <2>1 DEF Locked
  <2> QED BY <1>1, <2>1, <2>2, StillHeld
<1>7. CASE GlobalTake(w)
  <2>1. op'[w].at = "unlock" /\ op[w].at = "take" /\ global_lock' = global_lock
    BY <1>2, <1>7 DEF GlobalTake
  <2>2. Locked(w)' /\ Locked(w)
    BY <2>1 DEF Locked
  <2> QED BY <1>1, <2>1, <2>2, StillHeld
<1>8. CASE New(w)
  <2>1. op'[w].at = "user" /\ op[w].at = "new" /\ global_lock' = global_lock
    BY <1>3, <1>8 DEF New
  <2>2. ~ Locked(w)' /\ ~ Locked(w)
    BY <2>1 DEF Locked
  <2> QED BY <1>1, <2>1, <2>2, StillHeld
<1>9. CASE DeallocateLocal(w)
  <2>1. op'[w].at = "user" /\ op[w].at = "deallocate" /\ global_lock' = global_lock
    BY <1>3, <1>9 DEF DeallocateLocal
  <2>2. ~ Locked(w)' /\ ~ Locked(w)
    BY <2>1 DEF Locked
  <2> QED BY <1>1, <2>1, <2>2, StillHeld
<1>10. CASE DeallocateTryLock(w)
  <2>1. op'[w].at = "link" /\ global_lock' = TRUE /\ ~ global_lock
    BY <1>2, <1>10 DEF DeallocateTryLock, TryLock
  <2>2. Locked(w)'
    BY <2>1 DEF Locked
  <2> QED BY <1>1, <2>1, <2>2, Taken
<1>11. CASE Delete(w)
  <2>1. op'[w].at = "user" /\ op[w].at = "deallocate" /\ global_lock' = global_lock
    BY <1>3, <1>11 DEF Delete
  <2>2. ~ Locked(w)' /\ ~ Locked(w)
    BY <2>1 DEF Locked
  <2> QED BY <1>1, <2>1, <2>2, StillHeld
<1>12. CASE GlobalLink(w)
  <2>1. op'[w].at = "push" /\ op[w].at = "link" /\ global_lock' = global_lock
    BY <1>2, <1>12 DEF GlobalLink
  <2>2. Locked(w)' /\ Locked(w)
    BY <2>1 DEF Locked
  <2> QED BY <1>1, <2>1, <2>2, StillHeld
<1>13. CASE GlobalPush(w)
  <2>1. op'[w].at = "pushed" /\ op[w].at = "push" /\ global_lock' = global_lock
    BY <1>1, <1>13 DEF GlobalPush, CallType
  <2>2. Locked(w)' /\ Locked(w)
    BY <2>1 DEF Locked
  <2> QED BY <1>1, <2>1, <2>2, StillHeld
<1>14. CASE Unlock(w)
  <2>1. op'[w].at \in {"user", "new"} /\ op[w].at \in {"unlock", "pushed"} /\ global_lock' = FALSE
    BY <1>2, <1>3, <1>14 DEF Unlock
  <2>2. ~ Locked(w)' /\ Locked(w)
    BY <2>1 DEF Locked
  <2> QED BY <1>1, <2>1, <2>2, GivenUp
<1>15. ASSUME op[w] = Outside, op'[w].at \in {"user", "allocate", "deallocate"},
              global_lock' = global_lock
       PROVE  OneHolder'
  <2>1. ~ Locked(w)' /\ ~ Locked(w)
    BY <1>15 DEF Locked, Outside
  <2> QED BY <1>1, <1>15, <2>1, StillHeld
<1>16. ASSUME NEW a \in Arrays, NEW bytes \in 0..MaxBytes, Construct(w, a, bytes)
       PROVE  OneHolder'
  BY <1>1, <1>15, <1>16 DEF Construct, Outside
<1>17. ASSUME NEW a \in Arrays, NEW other \in Arrays \ {a}, MoveConstruct(w, a, other)
       PROVE  OneHolder'
  BY <1>1, <1>15, <1>17 DEF MoveConstruct, Outside
<1>18. ASSUME NEW a \in Arrays, NEW other \in Arrays \cup {null}, Release(w, a, other)
       PROVE  OneHolder'
  BY <1>1, <1>15, <1>18 DEF Release, Outside
<1> QED BY <1>4, <1>5, <1>6, <1>7, <1>8, <1>9, <1>10, <1>11, <1>12, <1>13, <1>14, <1>16, <1>17, <1>18
        DEF PoolStep, Allocate, Deallocate

-----------------------------------------------------------------------------
(***************************************************************************)
(* What a step does to the links: it takes the first block of a list, or   *)
(* puts a block before one, or leaves all links alone.                     *)
(***************************************************************************)
Unlinks(p) == p \in Blocks /\ link' = [link EXCEPT ![p] = UserData]
Links(p, h) == p \in Blocks /\ h \in Pointer /\ link' = [link EXCEPT ![p] = h]

LEMMA LinkSteps ==
  ASSUME PoolTypeOK, CallsAreApart, HeadsStay, NEW w \in Workers, PoolStep(w)
  PROVE  \/ AllocateLocal(w) /\ Unlinks(local_cache[w][BucketOf(w)])
         \/ GlobalTake(w) /\ Unlinks(op[w].block)
         \/ DeallocateLocal(w) /\ Links(op[w].block, local_cache[w][BucketOf(w)])
         \/ GlobalLink(w) /\ Links(op[w].block, global_cache[BucketOf(w)])
         \/ link' = link
<1>1. /\ local_cache \in [Workers -> [Buckets -> Pointer]] /\ global_cache \in [Large -> Pointer]
  BY DEF PoolTypeOK
<1>2. op[w].at # "user" => HasItsArrays(w) /\ op[w].block \in Pointer /\ BucketOf(w) \in Buckets
  BY OnePoolCall
<1>3. CASE AllocateLocal(w)
  BY <1>1, <1>2, <1>3 DEF AllocateLocal, Unlinks, Pointer
<1>4. CASE GlobalTake(w)
  <2>1. op[w].block \in Blocks
    BY <1>2, <1>4 DEF GlobalTake, HasItsArrays, WithBlock, Pointer
  <2> QED BY <1>4, <2>1 DEF GlobalTake, Unlinks
<1>5. CASE DeallocateLocal(w)
  <2>1. op[w].block \in Blocks /\ local_cache[w][BucketOf(w)] \in Pointer
    BY <1>1, <1>2, <1>5 DEF DeallocateLocal, HasItsArrays, WithBlock, Pointer
  <2> QED BY <1>5, <2>1 DEF DeallocateLocal, Links
<1>6. CASE GlobalLink(w)
  <2>1. op[w].block \in Blocks /\ global_cache[BucketOf(w)] \in Pointer
    BY <1>1, <1>2, <1>6 DEF GlobalLink, HasItsArrays, WithBlock, Pointer, HeadsStay, Locked
  <2> QED BY <1>6, <2>1 DEF GlobalLink, Links
<1>7. CASE ~ (AllocateLocal(w) \/ GlobalTake(w) \/ DeallocateLocal(w) \/ GlobalLink(w))
  <2>1. CASE AllocateTryLock(w) \/ GlobalRead(w) \/ New(w)
    BY <2>1 DEF AllocateTryLock, GlobalRead, New
  <2>2. CASE DeallocateTryLock(w) \/ GlobalPush(w) \/ Delete(w)
    BY <2>2 DEF DeallocateTryLock, GlobalPush, Delete
  <2>3. CASE Unlock(w)
    BY <2>3 DEF Unlock
  <2>4. ASSUME NEW a \in Arrays, NEW bytes \in 0..MaxBytes, Construct(w, a, bytes)
        PROVE  link' = link
    BY <2>4 DEF Construct
  <2>5. ASSUME NEW a \in Arrays, NEW other \in Arrays \ {a}, MoveConstruct(w, a, other)
        PROVE  link' = link
    BY <2>5 DEF MoveConstruct
  <2>6. ASSUME NEW a \in Arrays, NEW other \in Arrays \cup {null}, Release(w, a, other)
        PROVE  link' = link
    BY <2>6 DEF Release
  <2> QED BY <1>7, <2>1, <2>2, <2>3, <2>4, <2>5, <2>6 DEF PoolStep, Allocate, Deallocate
<1> QED BY <1>3, <1>4, <1>5, <1>6, <1>7

LEMMA GlobalSteps ==
  ASSUME PoolTypeOK, NEW w \in Workers, PoolStep(w)
  PROVE  GlobalTake(w) \/ GlobalPush(w) \/ global_cache' = global_cache
<1>1. CASE AllocateTryLock(w) \/ GlobalRead(w) \/ New(w) \/ AllocateLocal(w)
  BY <1>1 DEF AllocateTryLock, GlobalRead, New, AllocateLocal, lists
<1>2. CASE DeallocateTryLock(w) \/ GlobalLink(w) \/ Delete(w) \/ DeallocateLocal(w)
  BY <1>2 DEF DeallocateTryLock, GlobalLink, Delete, DeallocateLocal, lists
<1>3. CASE Unlock(w)
  BY <1>3 DEF Unlock, lists
<1>4. ASSUME NEW a \in Arrays, NEW bytes \in 0..MaxBytes, Construct(w, a, bytes)
      PROVE  global_cache' = global_cache
  BY <1>4 DEF Construct, lists
<1>5. ASSUME NEW a \in Arrays, NEW other \in Arrays \ {a}, MoveConstruct(w, a, other)
      PROVE  global_cache' = global_cache
  BY <1>5 DEF MoveConstruct, lists
<1>6. ASSUME NEW a \in Arrays, NEW other \in Arrays \cup {null}, Release(w, a, other)
      PROVE  global_cache' = global_cache
  BY <1>6 DEF Release, lists
<1> QED BY <1>1, <1>2, <1>3, <1>4, <1>5, <1>6 DEF PoolStep, Allocate, Deallocate

LEMMA LocalSteps ==
  ASSUME PoolTypeOK, NEW w \in Workers, PoolStep(w)
  PROVE  AllocateLocal(w) \/ DeallocateLocal(w) \/ local_cache' = local_cache
<1>1. CASE AllocateTryLock(w) \/ GlobalRead(w) \/ New(w) \/ GlobalTake(w)
  BY <1>1 DEF AllocateTryLock, GlobalRead, New, GlobalTake, lists
<1>2. CASE DeallocateTryLock(w) \/ GlobalLink(w) \/ Delete(w) \/ GlobalPush(w)
  BY <1>2 DEF DeallocateTryLock, GlobalLink, Delete, GlobalPush, lists
<1>3. CASE Unlock(w)
  BY <1>3 DEF Unlock, lists
<1>4. ASSUME NEW a \in Arrays, NEW bytes \in 0..MaxBytes, Construct(w, a, bytes)
      PROVE  local_cache' = local_cache
  BY <1>4 DEF Construct, lists
<1>5. ASSUME NEW a \in Arrays, NEW other \in Arrays \ {a}, MoveConstruct(w, a, other)
      PROVE  local_cache' = local_cache
  BY <1>5 DEF MoveConstruct, lists
<1>6. ASSUME NEW a \in Arrays, NEW other \in Arrays \cup {null}, Release(w, a, other)
      PROVE  local_cache' = local_cache
  BY <1>6 DEF Release, lists
<1> QED BY <1>1, <1>2, <1>3, <1>4, <1>5, <1>6 DEF PoolStep, Allocate, Deallocate

(***************************************************************************)
(* What the other workers have read of the lists stays true of them: their *)
(* lists, the global one while they have the lock, and the link of a block *)
(* they are about to push.                                                 *)
(***************************************************************************)
LEMMA OthersStay ==
  ASSUME PoolTypeOK, CallsAreApart, OneHolder, HeadsStay, Single,
         NEW w \in Workers, PoolStep(w), NEW u \in Workers \ {w}
  PROVE  /\ Locked(u) => global_cache' = global_cache
         /\ op[u].at = "push" => link'[op[u].block] = link[op[u].block]
         /\ op'[u] = op[u]
<1>1. op'[u] = op[u]
  BY OneMoves
<1>2. Locked(u) => global_cache' = global_cache
  BY GlobalSteps DEF GlobalTake, GlobalPush, OneHolder, Locked
<1>3. ASSUME op[u].at = "push" PROVE link'[op[u].block] = link[op[u].block]
  <2>1. op[u].block # null /\ Locked(u) /\ op[u].block \in Blocks
    BY <1>3, OnePoolCall DEF HasItsArrays, WithBlock, Locked, Pointer
  <2>2. /\ \A b \in Buckets : local_cache[w][b] # op[u].block
        /\ op[w].block # op[u].block
    BY <1>3, <2>1, HeldAlone
  <2>3. link \in [Blocks -> Pointer \cup {UserData}]
    BY DEF PoolTypeOK
  <2>4. AllocateLocal(w) => BucketOf(w) \in Buckets
    BY OnePoolCall DEF AllocateLocal
  <2> QED BY <2>1, <2>2, <2>3, <2>4, LinkSteps DEF Unlinks, Links
<1> QED BY <1>1, <1>2, <1>3

HeadStays(w) ==
  /\ Locked(w) => BucketOf(w) \in Large
  /\ op[w].at = "take" => global_cache[BucketOf(w)] = op[w].block
  /\ op[w].at = "push" => link[op[w].block] = global_cache[BucketOf(w)]

LEMMA StepHeads ==
  ASSUME PoolTypeOK, PoolTypeOK', CallsAreApart, OneHolder, HeadsStay, Single, NEW w \in Workers, PoolStep(w)
  PROVE  HeadsStay'
<1>1. ASSUME NEW u \in Workers \ {w} PROVE HeadStays(u)'
  <2>1. op'[u] = op[u] /\ BucketOf(u)' = BucketOf(u) /\ (Locked(u)' <=> Locked(u))
    BY OthersStay DEF BucketOf, Locked
  <2>2. Locked(u) => BucketOf(u) \in Large
    BY DEF HeadsStay
  <2>3. op[u].at = "take" => global_cache'[BucketOf(u)] = op[u].block
    BY OthersStay DEF HeadsStay, Locked
  <2>4. op[u].at = "push" => link'[op[u].block] = global_cache'[BucketOf(u)]
    BY OthersStay DEF HeadsStay, Locked
  <2> QED BY <2>1, <2>2, <2>3, <2>4 DEF HeadStays
<1> SUFFICES HeadStays(w)'
  BY <1>1 DEF HeadsStay, HeadStays
<1>2. op \in [Workers -> CallType]
  BY DEF PoolTypeOK, CallType
<1>3. ASSUME NEW place, Goto(w, place)
      PROVE  op'[w].at = place /\ op'[w].block = op[w].block /\ BucketOf(w)' = BucketOf(w)
  BY <1>2, <1>3 DEF Goto, CallType, BucketOf
<1>4. ASSUME op'[w].at \notin {"pop", "take", "unlock", "link", "push", "pushed"} PROVE HeadStays(w)'
  BY <1>4 DEF HeadStays, Locked
<1>5. ASSUME Finish(w) \/ \E p : Obtain(w, p)
      PROVE  HeadStays(w)'
  <2>1. op' = [op EXCEPT ![w] = Outside]
    BY <1>5 DEF Finish, Obtain
  <2>2. op'[w] = Outside
    BY <1>2, <2>1
  <2> QED BY <1>4, <2>2 DEF Outside
<1>6. CASE AllocateLocal(w) \/ New(w) \/ DeallocateLocal(w) \/ Delete(w)
  BY <1>5, <1>6 DEF AllocateLocal, New, DeallocateLocal, Delete
<1>7. ASSUME op[w].at # "user", BucketOf(w) >= Threshold2 PROVE BucketOf(w) \in Large
  BY <1>7, OnePoolCall DEF Large
<1>8. CASE AllocateTryLock(w)
  <2>1. CASE Goto(w, "pop") /\ BucketOf(w) >= Threshold2
    BY <1>3, <1>7, <1>8, <2>1 DEF AllocateTryLock, HeadStays
  <2>2. CASE Goto(w, "new")
    BY <1>3, <1>4, <2>2
  <2> QED BY <1>8, <2>1, <2>2 DEF AllocateTryLock
<1>9. CASE GlobalRead(w)
  <2>1. BucketOf(w)' = BucketOf(w) /\ op'[w].block = global_cache[BucketOf(w)]
        /\ op'[w].at \in {"unlock", "take"}
    BY <1>2, <1>9 DEF GlobalRead, CallType, BucketOf
  <2>2. BucketOf(w) \in Large /\ global_cache' = global_cache
    BY <1>9 DEF GlobalRead, HeadsStay, Locked, lists
  <2> QED BY <2>1, <2>2 DEF HeadStays
<1>10. CASE GlobalTake(w)
  <2>1. BucketOf(w) \in Large /\ Goto(w, "unlock")
    BY <1>10 DEF GlobalTake, HeadsStay, Locked
  <2> QED BY <1>3, <2>1 DEF HeadStays
<1>11. CASE DeallocateTryLock(w)
  <2>1. Goto(w, "link") /\ BucketOf(w) >= Threshold2
    <3>1. BucketOf(w) \in Nat /\ Threshold2 \in Nat
      BY <1>11, OnePoolCall, PoolAssumption DEF DeallocateTryLock
    <3> QED BY <1>11, <3>1 DEF DeallocateTryLock, Keeps
  <2>2. BucketOf(w) \in Large
    BY <1>7, <1>11, <2>1 DEF DeallocateTryLock
  <2> QED BY <1>3, <2>1, <2>2 DEF HeadStays
<1>12. CASE GlobalLink(w)
  <2>1. BucketOf(w) \in Large /\ Goto(w, "push") /\ global_cache' = global_cache
    BY <1>12 DEF GlobalLink, HeadsStay, Locked, lists
  <2>2. op[w].block \in Blocks
    BY <1>12, OnePoolCall DEF GlobalLink, HasItsArrays, WithBlock, Pointer
  <2>3. link'[op[w].block] = global_cache[BucketOf(w)]
    BY <1>12, <2>2 DEF GlobalLink, PoolTypeOK
  <2> QED BY <1>3, <2>1, <2>3 DEF HeadStays
<1>13. CASE GlobalPush(w)
  <2>1. BucketOf(w) \in Large
    BY <1>13 DEF GlobalPush, HeadsStay, Locked
  <2>2. BucketOf(w)' = BucketOf(w) /\ op'[w].at = "pushed"
    BY <1>2, <1>13 DEF GlobalPush, CallType, BucketOf
  <2> QED BY <2>1, <2>2 DEF HeadStays
<1>14. CASE Unlock(w)
  <2>1. CASE Goto(w, "new")
    BY <1>3, <1>4, <2>1
  <2> QED BY <1>5, <1>14, <2>1 DEF Unlock
<1>15. ASSUME NEW a \in Arrays, NEW bytes \in 0..MaxBytes, Construct(w, a, bytes)
       PROVE  HeadStays(w)'
  <2>1. op'[w].at \in {"user", "allocate"}
    BY <1>2, <1>15 DEF Construct, Outside
  <2> QED BY <1>4, <2>1
<1>16. ASSUME NEW a \in Arrays, NEW other \in Arrays \ {a}, MoveConstruct(w, a, other)
       PROVE  HeadStays(w)'
  <2>1. op'[w].at = "user"
    BY <1>16 DEF MoveConstruct, Outside
  <2> QED BY <1>4, <2>1
<1>17. ASSUME NEW a \in Arrays, NEW other \in Arrays \cup {null}, Release(w, a, other)
       PROVE  HeadStays(w)'
  <2>1. op'[w].at \in {"user", "deallocate"}
    BY <1>2, <1>17 DEF Release, Outside
  <2> QED BY <1>4, <2>1
<1> QED BY <1>6, <1>8, <1>9, <1>10, <1>11, <1>12, <1>13, <1>14, <1>15, <1>16, <1>17
        DEF PoolStep, Allocate, Deallocate

-----------------------------------------------------------------------------
(* An Array has its block from an Array, or just got it. *)
Obtains(w, p) ==
  \/ AllocateLocal(w) /\ p = local_cache[w][BucketOf(w)]
  \/ New(w) /\ p \in Blocks /\ block_size[p] = 0
     /\ block_size' = [block_size EXCEPT ![p] = 2 ^ BucketOf(w)]
  \/ Unlock(w) /\ op[w].at = "unlock" /\ p = op[w].block /\ p # null

LEMMA ArraySteps ==
  ASSUME PoolTypeOK, CallsAreApart, NEW w \in Workers, PoolStep(w), NEW a \in Arrays,
         array'[a].data # null
  PROVE  \/ \E c \in Arrays : /\ array'[a].data = array[c].data
                              /\ array'[a].size = array[c].size
         \/ Obtains(w, array'[a].data) /\ array'[a].size = op[w].bytes
<1> DEFINE From == \E c \in Arrays : /\ array'[a].data = array[c].data
                                     /\ array'[a].size = array[c].size
<1>1. array \in [Arrays -> ArrayType]
  BY DEF PoolTypeOK, ArrayType
<1>2. ASSUME array' = array PROVE From
  BY <1>2
<1>3. ASSUME NEW b \in Arrays, NEW other \in Arrays \cup {null}, other # b,
             array' = Assigned(b, other)
      PROVE  From
  <2>1. array' = [c \in Arrays |-> IF c = b THEN IF other = null THEN NoArray ELSE array[other]
                                    ELSE IF c = other THEN MovedFrom ELSE array[c]]
    BY <1>3, Assigning
  <2>2. NoArray.data = null /\ MovedFrom.data = null
    BY DEF NoArray, MovedFrom
  <2>3. CASE a = b
    BY <2>1, <2>2, <2>3
  <2>4. CASE a # b
    BY <2>1, <2>2, <2>4
  <2> QED BY <2>3, <2>4
<1>4. ASSUME Finish(w), op[w].at # "user" PROVE From
  <2>1. op[w].for \in Arrays /\ op[w].from \in Arrays \cup {null} /\ op[w].for # op[w].from
    BY <1>4, OnePoolCall
  <2> QED BY <1>3, <1>4, <2>1 DEF Finish
<1>5. ASSUME NEW p, Obtain(w, p), op[w].at # "user", op[w].at \in Allocating
      PROVE  From \/ (array'[a].data = p /\ array'[a].size = op[w].bytes)
  <2>1. op[w].for \in Arrays /\ array[op[w].for].size = op[w].bytes
    BY <1>5, OnePoolCall DEF HasItsArrays
  <2>2. array' = [array EXCEPT ![op[w].for] = [array[op[w].for] EXCEPT !.data = p]]
    BY <1>1, <1>5, <2>1 DEF Obtain
  <2>3. array[op[w].for] \in ArrayType
    BY <1>1, <2>1
  <2>4. CASE a = op[w].for
    BY <1>1, <2>1, <2>2, <2>3, <2>4 DEF ArrayType
  <2>5. CASE a # op[w].for
    <3>1. array'[a] = array[a]
      BY <1>1, <2>2, <2>5
    <3> QED BY <3>1
  <2> QED BY <2>4, <2>5
<1>6. CASE AllocateLocal(w)
  BY <1>5, <1>6 DEF AllocateLocal, Allocating, Obtains
<1>7. CASE New(w)
  <2>1. PICK p \in Blocks : /\ block_size[p] = 0 /\ Obtain(w, p)
                            /\ block_size' = [block_size EXCEPT ![p] = 2 ^ BucketOf(w)]
    BY <1>7 DEF New
  <2>2. From \/ (array'[a].data = p /\ array'[a].size = op[w].bytes)
    BY <1>5, <1>7, <2>1 DEF New, Allocating
  <2> QED BY <1>7, <2>1, <2>2 DEF Obtains
<1>8. CASE Unlock(w)
  <2>1. CASE op[w].at = "pushed"
    BY <1>4, <1>8, <2>1 DEF Unlock
  <2>2. CASE op[w].at = "unlock" /\ op[w].block # null
    <3>1. Obtain(w, op[w].block)
      BY <1>8, <2>2 DEF Unlock
    <3>2. From \/ (array'[a].data = op[w].block /\ array'[a].size = op[w].bytes)
      BY <1>5, <2>2, <3>1 DEF Allocating
    <3> QED BY <1>8, <2>2, <3>2 DEF Obtains
  <2>3. CASE op[w].at # "pushed" /\ op[w].block = null
    BY <1>2, <1>8, <2>3 DEF Unlock
  <2> QED BY <1>8, <2>1, <2>2, <2>3 DEF Unlock
<1>9. CASE DeallocateLocal(w) \/ Delete(w)
  BY <1>4, <1>9 DEF DeallocateLocal, Delete
<1>10. CASE AllocateTryLock(w) \/ GlobalRead(w) \/ GlobalTake(w)
  BY <1>2, <1>10 DEF AllocateTryLock, GlobalRead, GlobalTake
<1>11. CASE DeallocateTryLock(w) \/ GlobalLink(w) \/ GlobalPush(w)
  BY <1>2, <1>11 DEF DeallocateTryLock, GlobalLink, GlobalPush
<1>12. ASSUME NEW b \in Arrays, NEW bytes \in 0..MaxBytes, Construct(w, b, bytes)
       PROVE  From
  BY <1>1, <1>12 DEF Construct
<1>13. ASSUME NEW b \in Arrays, NEW other \in Arrays \ {b}, MoveConstruct(w, b, other)
       PROVE  From
  BY <1>3, <1>13 DEF MoveConstruct
<1>14. ASSUME NEW b \in Arrays, NEW other \in Arrays \cup {null}, Release(w, b, other)
       PROVE  From
  <2>1. CASE array[b].data = null
    BY <1>3, <1>14, <2>1, PoolAssumption DEF Release
  <2>2. CASE array[b].data # null
    <3>1. array' = [array EXCEPT ![b] = [array[b] EXCEPT !.data = null]] /\ array[b] \in ArrayType
      BY <1>1, <1>14, <2>2 DEF Release
    <3>2. [array[b] EXCEPT !.data = null].data = null
      BY <3>1 DEF ArrayType
    <3> QED BY <1>1, <3>1, <3>2
  <2> QED BY <2>1, <2>2
<1> QED BY <1>6, <1>7, <1>8, <1>9, <1>10, <1>11, <1>12, <1>13, <1>14 DEF PoolStep, Allocate, Deallocate

(* What a worker holds after a step of its own. *)
LEMMA BlockSteps ==
  ASSUME PoolTypeOK, CallsAreApart, NEW w \in Workers, PoolStep(w), op'[w].block # null
  PROVE  \/ /\ GlobalRead(w) /\ op'[w].at = "take" /\ op'[w].block = global_cache[BucketOf(w)]
            /\ op'[w].bytes = op[w].bytes
         \/ /\ GlobalTake(w) /\ op'[w].at = "unlock" /\ op'[w].block = op[w].block
            /\ op'[w].bytes = op[w].bytes
         \/ /\ DeallocateTryLock(w) /\ op'[w].at = "link" /\ op'[w].block = op[w].block
            /\ op'[w].bytes = op[w].bytes
         \/ /\ GlobalLink(w) /\ op'[w].at = "push" /\ op'[w].block = op[w].block
            /\ op'[w].bytes = op[w].bytes
         \/ \E a \in Arrays, other \in Arrays \cup {null} :
              /\ Release(w, a, other) /\ op'[w].at = "deallocate"
              /\ op'[w].block = array[a].data /\ op'[w].bytes = array[a].size
<1>1. op \in [Workers -> CallType]
  BY DEF PoolTypeOK, CallType
<1>2. ASSUME NEW place, Goto(w, place)
      PROVE  op'[w].at = place /\ op'[w].block = op[w].block /\ op'[w].bytes = op[w].bytes
  BY <1>1, <1>2 DEF Goto, CallType
<1>3. ASSUME Finish(w) \/ \E p : Obtain(w, p) PROVE FALSE
  <2>1. op' = [op EXCEPT ![w] = Outside]
    BY <1>3 DEF Finish, Obtain
  <2>2. op'[w] = Outside
    BY <1>1, <2>1
  <2> QED BY <2>2 DEF Outside
<1>4. CASE AllocateLocal(w) \/ New(w) \/ DeallocateLocal(w) \/ Delete(w)
  BY <1>3, <1>4 DEF AllocateLocal, New, DeallocateLocal, Delete
<1>5. CASE AllocateTryLock(w)
  <2>1. op[w].block = null
    BY <1>5, OnePoolCall DEF AllocateTryLock, HasItsArrays, WithoutBlock
  <2>2. Goto(w, "pop") \/ Goto(w, "new")
    BY <1>5 DEF AllocateTryLock
  <2> QED BY <1>2, <2>1, <2>2
<1>6. CASE GlobalRead(w)
  <2>1. /\ op'[w].block = global_cache[BucketOf(w)] /\ op'[w].bytes = op[w].bytes
        /\ op'[w].at = IF global_cache[BucketOf(w)] = null THEN "unlock" ELSE "take"
    BY <1>1, <1>6 DEF GlobalRead, CallType
  <2> QED BY <1>6, <2>1
<1>7. CASE GlobalTake(w)
  BY <1>2, <1>7 DEF GlobalTake
<1>8. CASE DeallocateTryLock(w)
  BY <1>2, <1>8 DEF DeallocateTryLock
<1>9. CASE GlobalLink(w)
  BY <1>2, <1>9 DEF GlobalLink
<1>10. CASE GlobalPush(w)
  <2>1. op'[w].block = null
    BY <1>1, <1>10 DEF GlobalPush, CallType
  <2> QED BY <2>1
<1>11. CASE Unlock(w)
  BY <1>2, <1>3, <1>11 DEF Unlock
<1>12. ASSUME NEW a \in Arrays, NEW bytes \in 0..MaxBytes, Construct(w, a, bytes)
       PROVE  FALSE
  BY <1>1, <1>12 DEF Construct, Outside
<1>13. ASSUME NEW a \in Arrays, NEW other \in Arrays \ {a}, MoveConstruct(w, a, other)
       PROVE  FALSE
  BY <1>13 DEF MoveConstruct, Outside
<1>14. ASSUME NEW a \in Arrays, NEW other \in Arrays \cup {null}, Release(w, a, other)
       PROVE  /\ op'[w].at = "deallocate"
              /\ op'[w].block = array[a].data /\ op'[w].bytes = array[a].size
  BY <1>1, <1>14 DEF Release, Outside
<1> QED BY <1>4, <1>5, <1>6, <1>7, <1>8, <1>9, <1>10, <1>11, <1>12, <1>13, <1>14
        DEF PoolStep, Allocate, Deallocate

-----------------------------------------------------------------------------
(***************************************************************************)
(* The first words of blocks.  Only a block nobody else refers to changes  *)
(* its first word.                                                         *)
(***************************************************************************)
LEMMA StillUserData ==
  ASSUME PoolTypeOK, CallsAreApart, OneHolder, HeadsStay, Single, NEW w \in Workers, PoolStep(w),
         NEW x \in Blocks, link[x] = UserData, x # op[w].block
  PROVE  link'[x] = UserData
<1>1. link \in [Blocks -> Pointer \cup {UserData}]
  BY DEF PoolTypeOK
<1> QED BY <1>1, LinkSteps DEF Unlinks, Links

LEMMA StillALink ==
  ASSUME PoolTypeOK, CallsAreApart, OneHolder, HeadsStay, Single, NEW w \in Workers, PoolStep(w),
         NEW x \in Blocks, link[x] # UserData,
         AllocateLocal(w) => x # local_cache[w][BucketOf(w)],
         GlobalTake(w) => x # op[w].block
  PROVE  link'[x] # UserData
<1>1. link \in [Blocks -> Pointer \cup {UserData}] /\ UserData \notin Pointer
  BY PoolAssumption DEF PoolTypeOK, Pointer
<1> QED BY <1>1, LinkSteps DEF Unlinks, Links

LEMMA ArrayMarks ==
  ASSUME Sound, PoolTypeOK', ~ closed, NEW w \in Workers, PoolStep(w), NEW a \in Arrays,
         array'[a].data # null
  PROVE  link'[array'[a].data] = UserData
<1> USE DEF Sound
<1>1. array'[a].data \in Blocks
  BY DEF PoolTypeOK, Pointer
<1> DEFINE x == array'[a].data
<1>2. ASSUME NEW c \in Arrays, x = array[c].data
      PROVE  link'[x] = UserData
  <2>1. link[x] = UserData
    BY <1>1, <1>2, PoolAssumption DEF Marks
  <2>2. CASE x # op[w].block
    BY <1>1, <2>1, <2>2, StillUserData
  <2>3. CASE x = op[w].block
    <3>1. op[w].block # null /\ op[w].at = "take"
      BY <1>1, <1>2, <2>3, HeldAlone, PoolAssumption
    <3> QED BY <1>2, <2>3, <3>1, HeadAlone
  <2> QED BY <2>2, <2>3
<1>3. ASSUME Obtains(w, x) PROVE link'[x] = UserData
  <2>1. link \in [Blocks -> Pointer \cup {UserData}]
    BY DEF PoolTypeOK
  <2>2. CASE AllocateLocal(w) /\ x = local_cache[w][BucketOf(w)]
    BY <1>1, <2>1, <2>2 DEF AllocateLocal
  <2>3. CASE New(w) /\ block_size[x] = 0
    <3>1. link[x] = UserData
      BY <1>1, <2>3 DEF Sizes
    <3> QED BY <2>3, <3>1 DEF New
  <2>4. CASE Unlock(w) /\ op[w].at = "unlock" /\ x = op[w].block /\ x # null
    <3>1. link[x] = UserData
      BY <2>4 DEF Marks
    <3> QED BY <2>4, <3>1 DEF Unlock
  <2> QED BY <1>3, <2>2, <2>3, <2>4 DEF Obtains
<1> QED BY <1>2, <1>3, ArraySteps

LEMMA WorkerMarks ==
  ASSUME Sound, PoolTypeOK', ~ closed, NEW w \in Workers, PoolStep(w), NEW u \in Workers,
         op'[u].block # null
  PROVE  link'[op'[u].block] = UserData <=> op'[u].at \notin {"take", "push"}
<1> USE DEF Sound
<1> DEFINE x == op'[u].block
<1>1. x \in Blocks /\ link \in [Blocks -> Pointer \cup {UserData}]
  BY DEF PoolTypeOK, Pointer
<1>2. CASE u # w
  <2>1. op'[u] = op[u] /\ x = op[u].block
    BY <1>2, OthersStay
  <2>2. CASE op[u].at = "push"
    <3>1. link'[x] = link[x]
      BY <1>2, <2>1, <2>2, OthersStay
    <3> QED BY <2>1, <2>2, <3>1 DEF Marks
  <2>3. CASE op[u].at = "take"
    <3>1. link[x] # UserData /\ x = global_cache[BucketOf(u)] /\ BucketOf(u) \in Large
      BY <2>1, <2>3 DEF Marks, HeadsStay, Locked
    <3>2. AllocateLocal(w) => x # local_cache[w][BucketOf(w)]
      <4>1. AllocateLocal(w) => /\ BucketOf(w) \in Buckets
                                /\ local_cache[w][BucketOf(w)] # null
        BY OnePoolCall DEF AllocateLocal
      <4> QED BY <3>1, <4>1, CachedAlone
    <3>3. ~ GlobalTake(w)
      BY <1>2, <2>3 DEF GlobalTake, OneHolder, Locked
    <3>4. link'[x] # UserData
      BY <1>1, <3>1, <3>2, <3>3, StillALink
    <3> QED BY <2>1, <2>3, <3>4
  <2>4. CASE op[u].at \notin {"take", "push"}
    <3>1. link[x] = UserData
      BY <2>1, <2>4 DEF Marks
    <3>2. x # op[w].block
      BY <1>1, <1>2, <2>1, <2>4, HeldAlone
    <3>3. link'[x] = UserData
      BY <1>1, <3>1, <3>2, StillUserData
    <3> QED BY <2>1, <2>4, <3>3
  <2> QED BY <2>2, <2>3, <2>4
<1>3. CASE u = w
  <2>1. CASE GlobalRead(w) /\ op'[w].at = "take" /\ x = global_cache[BucketOf(w)]
    <3>1. link[x] # UserData /\ link' = link
      BY <1>1, <2>1, PoolAssumption DEF GlobalRead, Marks, HeadsStay, Locked
    <3> QED BY <1>3, <2>1, <3>1
  <2>2. CASE GlobalTake(w) /\ op'[w].at = "unlock" /\ x = op[w].block
    BY <1>1, <1>3, <2>2 DEF GlobalTake
  <2>3. CASE DeallocateTryLock(w) /\ op'[w].at = "link" /\ x = op[w].block
    <3>1. link[x] = UserData /\ link' = link
      BY <1>1, <1>3, <2>3 DEF DeallocateTryLock, Marks
    <3> QED BY <1>3, <2>3, <3>1
  <2>4. CASE GlobalLink(w) /\ op'[w].at = "push" /\ x = op[w].block
    <3>1. global_cache[BucketOf(w)] \in Pointer /\ UserData \notin Pointer
      BY <2>4, PoolAssumption DEF GlobalLink, HeadsStay, Locked, PoolTypeOK, Pointer
    <3> QED BY <1>1, <1>3, <2>4, <3>1 DEF GlobalLink
  <2>5. ASSUME NEW a \in Arrays, NEW other \in Arrays \cup {null}, Release(w, a, other),
               op'[w].at = "deallocate", x = array[a].data
        PROVE  link'[op'[u].block] = UserData <=> op'[u].at \notin {"take", "push"}
    <3>1. link[x] = UserData /\ link' = link
      BY <1>1, <2>5, PoolAssumption DEF Release, Marks
    <3> QED BY <1>3, <2>5, <3>1
  <2> QED BY <1>3, <2>1, <2>2, <2>3, <2>4, <2>5, BlockSteps
<1> QED BY <1>2, <1>3

(* A block a worker takes from a list is nobody else's. *)
LEMMA UnlinkedAlone ==
  ASSUME PoolTypeOK, CallsAreApart, OneHolder, HeadsStay, Single, NEW w \in Workers, NEW p,
         \/ AllocateLocal(w) /\ p = local_cache[w][BucketOf(w)]
         \/ GlobalTake(w) /\ p = op[w].block
  PROVE  /\ p # null
         /\ \A u \in Workers, b \in Buckets :
              local_cache[u][b] = p => AllocateLocal(w) /\ u = w /\ b = BucketOf(w)
         /\ \A b \in Large : global_cache[b] = p => GlobalTake(w) /\ b = BucketOf(w)
         /\ \A q \in Blocks : link[q] # p
<1>1. CASE AllocateLocal(w) /\ p = local_cache[w][BucketOf(w)]
  <2>1. BucketOf(w) \in Buckets /\ p # null
    BY <1>1, OnePoolCall DEF AllocateLocal
  <2> QED BY <1>1, <2>1, CachedAlone
<1>2. CASE GlobalTake(w) /\ p = op[w].block
  <2>1. op[w].at = "take" /\ p # null
    BY <1>2, OnePoolCall DEF GlobalTake, HasItsArrays, WithBlock
  <2> QED BY <1>2, <2>1, HeadAlone
<1> QED BY <1>1, <1>2

LEMMA LocalMarks ==
  ASSUME Sound, PoolTypeOK', ~ closed, NEW w \in Workers, PoolStep(w),
         NEW u \in Workers, NEW b \in Buckets, local_cache'[u][b] # null
  PROVE  link'[local_cache'[u][b]] # UserData
<1> USE DEF Sound
<1> DEFINE x == local_cache'[u][b]
<1>1. /\ x \in Blocks /\ link \in [Blocks -> Pointer \cup {UserData}]
      /\ local_cache \in [Workers -> [Buckets -> Pointer]] /\ UserData \notin Pointer
  BY PoolAssumption DEF PoolTypeOK, Pointer
<1>2. ASSUME x = local_cache[u][b], ~ (AllocateLocal(w) /\ u = w /\ b = BucketOf(w))
      PROVE  link'[x] # UserData
  <2>1. link[x] # UserData
    BY <1>1, <1>2, PoolAssumption DEF Marks
  <2>2. AllocateLocal(w) => x # local_cache[w][BucketOf(w)]
    BY <1>2, UnlinkedAlone
  <2>3. GlobalTake(w) => x # op[w].block
    <3>1. ASSUME GlobalTake(w), x = op[w].block PROVE FALSE
      <4>1. AllocateLocal(w)
        BY <1>2, <3>1, UnlinkedAlone
      <4> QED BY <3>1, <4>1 DEF GlobalTake, AllocateLocal
    <3> QED BY <3>1
  <2> QED BY <1>1, <2>1, <2>2, <2>3, StillALink
<1>3. CASE AllocateLocal(w)
  <2> DEFINE p == local_cache[w][BucketOf(w)]
  <2>1. p \in Blocks /\ BucketOf(w) \in Buckets
    BY <1>1, <1>3, OnePoolCall DEF AllocateLocal, Pointer
  <2>2. local_cache' = [local_cache EXCEPT ![w] = [local_cache[w] EXCEPT ![BucketOf(w)] = link[p]]]
    BY <1>3 DEF AllocateLocal
  <2>3. CASE u = w /\ b = BucketOf(w)
    <3>1. x = link[p]
      BY <1>1, <2>1, <2>2, <2>3
    <3>2. link[x] # UserData /\ x # p
      BY <1>1, <1>3, <2>1, <3>1, UnlinkedAlone DEF Marks
    <3>3. ~ GlobalTake(w)
      BY <1>3 DEF AllocateLocal, GlobalTake
    <3> QED BY <1>1, <3>2, <3>3, StillALink
  <2>4. CASE ~ (u = w /\ b = BucketOf(w))
    <3>1. x = local_cache[u][b]
      BY <1>1, <2>2, <2>4
    <3> QED BY <1>2, <2>4, <3>1
  <2> QED BY <2>3, <2>4
<1>4. CASE DeallocateLocal(w)
  <2>1. op[w].block \in Blocks /\ BucketOf(w) \in Buckets
        /\ local_cache[w][BucketOf(w)] \in Pointer
    BY <1>1, <1>4, OnePoolCall DEF DeallocateLocal, HasItsArrays, WithBlock, Pointer
  <2>2. local_cache' = [local_cache EXCEPT ![w] = [local_cache[w] EXCEPT ![BucketOf(w)] = op[w].block]]
    BY <1>4 DEF DeallocateLocal
  <2>3. CASE u = w /\ b = BucketOf(w)
    <3>1. x = op[w].block
      BY <1>1, <2>1, <2>2, <2>3
    <3> QED BY <1>1, <1>4, <2>1, <3>1 DEF DeallocateLocal
  <2>4. CASE ~ (u = w /\ b = BucketOf(w))
    <3>1. x = local_cache[u][b]
      BY <1>1, <2>2, <2>4
    <3> QED BY <1>2, <2>4, <3>1
  <2> QED BY <2>3, <2>4
<1>5. CASE ~ AllocateLocal(w) /\ local_cache' = local_cache
  BY <1>2, <1>5
<1> QED BY <1>3, <1>4, <1>5, LocalSteps

LEMMA GlobalMarks ==
  ASSUME Sound, PoolTypeOK', ~ closed, NEW w \in Workers, PoolStep(w),
         NEW b \in Large, global_cache'[b] # null
  PROVE  link'[global_cache'[b]] # UserData
<1> USE DEF Sound
<1> DEFINE x == global_cache'[b]
<1>1. /\ x \in Blocks /\ link \in [Blocks -> Pointer \cup {UserData}]
      /\ global_cache \in [Large -> Pointer]
  BY DEF PoolTypeOK, Pointer
<1>2. ASSUME x = global_cache[b], ~ (GlobalTake(w) /\ b = BucketOf(w))
      PROVE  link'[x] # UserData
  <2>1. link[x] # UserData
    BY <1>1, <1>2, PoolAssumption DEF Marks
  <2>2. GlobalTake(w) => x # op[w].block
    BY <1>2, UnlinkedAlone
  <2>3. AllocateLocal(w) => x # local_cache[w][BucketOf(w)]
    <3>1. ASSUME AllocateLocal(w), x = local_cache[w][BucketOf(w)] PROVE FALSE
      <4>1. GlobalTake(w)
        BY <1>2, <3>1, UnlinkedAlone
      <4> QED BY <3>1, <4>1 DEF GlobalTake, AllocateLocal
    <3> QED BY <3>1
  <2> QED BY <1>1, <2>1, <2>2, <2>3, StillALink
<1>3. CASE GlobalTake(w)
  <2> DEFINE p == op[w].block
  <2>1. p \in Blocks
    BY <1>3, OnePoolCall DEF GlobalTake, HasItsArrays, WithBlock, Pointer
  <2>2. CASE b = BucketOf(w)
    <3>1. x = link[p]
      BY <1>1, <1>3, <2>1, <2>2 DEF GlobalTake
    <3>2. link[x] # UserData /\ x # p
      BY <1>1, <1>3, <2>1, <3>1, UnlinkedAlone DEF Marks
    <3>3. ~ AllocateLocal(w)
      BY <1>3 DEF AllocateLocal, GlobalTake
    <3> QED BY <1>1, <3>2, <3>3, StillALink
  <2>3. CASE b # BucketOf(w)
    <3>1. x = global_cache[b]
      BY <1>1, <1>3, <2>3 DEF GlobalTake
    <3> QED BY <1>2, <2>3, <3>1
  <2> QED BY <2>2, <2>3
<1>4. CASE GlobalPush(w)
  <2>1. op[w].block # null /\ op[w].at = "push" /\ link' = link
    BY <1>4, OnePoolCall DEF GlobalPush, HasItsArrays, WithBlock
  <2>2. link[op[w].block] # UserData
    BY <2>1 DEF Marks
  <2>3. CASE b = BucketOf(w)
    BY <1>1, <1>4, <2>1, <2>2, <2>3 DEF GlobalPush
  <2>4. CASE b # BucketOf(w)
    <3>1. x = global_cache[b] /\ ~ GlobalTake(w)
      BY <1>1, <1>4, <2>4 DEF GlobalPush, GlobalTake
    <3> QED BY <1>2, <3>1
  <2> QED BY <2>3, <2>4
<1>5. CASE ~ GlobalTake(w) /\ global_cache' = global_cache
  BY <1>2, <1>5
<1> QED BY <1>3, <1>4, <1>5, GlobalSteps

LEMMA LinkMarks ==
  ASSUME Sound, PoolTypeOK', ~ closed, NEW w \in Workers, PoolStep(w),
         NEW q \in Blocks, link'[q] \in Blocks
  PROVE  link'[link'[q]] # UserData
<1> USE DEF Sound
<1> DEFINE x == link'[q]
<1>1. /\ link \in [Blocks -> Pointer \cup {UserData}] /\ UserData \notin Blocks
      /\ null \notin Blocks
  BY PoolAssumption DEF PoolTypeOK
<1>2. ASSUME x = link[q] PROVE link'[x] # UserData
  <2>1. link[x] # UserData
    BY <1>2 DEF Marks
  <2>2. AllocateLocal(w) => x # local_cache[w][BucketOf(w)]
    BY <1>2, UnlinkedAlone
  <2>3. GlobalTake(w) => x # op[w].block
    BY <1>2, UnlinkedAlone
  <2> QED BY <2>1, <2>2, <2>3, StillALink
<1>3. CASE AllocateLocal(w) /\ Unlinks(local_cache[w][BucketOf(w)])
  BY <1>1, <1>2, <1>3 DEF Unlinks
<1>4. CASE GlobalTake(w) /\ Unlinks(op[w].block)
  BY <1>1, <1>2, <1>4 DEF Unlinks
<1>5. ASSUME NEW h, DeallocateLocal(w) \/ GlobalLink(w), Links(op[w].block, h),
             h \in Blocks => link[h] # UserData
      PROVE  link'[x] # UserData
  <2>1. CASE q = op[w].block
    <3>1. x = h /\ link[x] # UserData
      BY <1>1, <1>5, <2>1 DEF Links
    <3>2. ~ AllocateLocal(w) /\ ~ GlobalTake(w)
      BY <1>5 DEF DeallocateLocal, GlobalLink, AllocateLocal, GlobalTake
    <3> QED BY <3>1, <3>2, StillALink
  <2>2. CASE q # op[w].block
    BY <1>1, <1>2, <1>5, <2>2 DEF Links
  <2> QED BY <2>1, <2>2
<1>6. CASE DeallocateLocal(w) /\ Links(op[w].block, local_cache[w][BucketOf(w)])
  <2>1. BucketOf(w) \in Buckets
    BY <1>6, OnePoolCall DEF DeallocateLocal
  <2>2. local_cache[w][BucketOf(w)] \in Blocks => link[local_cache[w][BucketOf(w)]] # UserData
    BY <1>1, <2>1 DEF Marks
  <2> QED BY <1>5, <1>6, <2>2
<1>7. CASE GlobalLink(w) /\ Links(op[w].block, global_cache[BucketOf(w)])
  <2>1. BucketOf(w) \in Large
    BY <1>7 DEF GlobalLink, HeadsStay, Locked
  <2>2. global_cache[BucketOf(w)] \in Blocks => link[global_cache[BucketOf(w)]] # UserData
    BY <1>1, <2>1 DEF Marks
  <2> QED BY <1>5, <1>7, <2>2
<1>8. CASE link' = link
  BY <1>2, <1>8
<1> QED BY <1>3, <1>4, <1>6, <1>7, <1>8, LinkSteps

LEMMA StepMarks ==
  ASSUME Sound, PoolTypeOK', ~ closed, NEW w \in Workers, PoolStep(w)
  PROVE  Marks'
BY ArrayMarks, WorkerMarks, LocalMarks, GlobalMarks, LinkMarks DEF Marks

LEMMA StepAlone ==
  ASSUME Sound, PoolTypeOK', ~ closed, NEW w \in Workers, PoolStep(w)
  PROVE  LargeAlone'
<1> USE DEF Sound
<1> SUFFICES ASSUME NEW u \in Workers, NEW b \in Large, local_cache'[u][b] # null
             PROVE  link'[local_cache'[u][b]] = null
  BY DEF LargeAlone
<1> DEFINE x == local_cache'[u][b]
<1>1. /\ b \in Buckets /\ link \in [Blocks -> Pointer \cup {UserData}]
      /\ local_cache \in [Workers -> [Buckets -> Pointer]]
      /\ x \in Blocks
  BY DEF PoolTypeOK, Large, Pointer
<1>2. ASSUME x = local_cache[u][b], ~ (AllocateLocal(w) /\ u = w /\ b = BucketOf(w))
      PROVE  link'[x] = null
  <2>1. link[x] = null
    BY <1>2 DEF LargeAlone
  <2>2. AllocateLocal(w) => x # local_cache[w][BucketOf(w)]
    BY <1>1, <1>2, UnlinkedAlone
  <2>3. GlobalTake(w) => x # op[w].block
    <3>1. ASSUME GlobalTake(w), x = op[w].block PROVE FALSE
      <4>1. AllocateLocal(w)
        BY <1>1, <1>2, <3>1, UnlinkedAlone
      <4> QED BY <3>1, <4>1 DEF GlobalTake, AllocateLocal
    <3> QED BY <3>1
  <2>4. DeallocateLocal(w) \/ GlobalLink(w) => x # op[w].block
    <3>1. DeallocateLocal(w) \/ GlobalLink(w) => op[w].block # null /\ op[w].at # "take"
      BY OnePoolCall DEF DeallocateLocal, GlobalLink, HasItsArrays, WithBlock
    <3> QED BY <1>1, <1>2, <3>1, HeldAlone
  <2> QED BY <1>1, <2>1, <2>2, <2>3, <2>4, LinkSteps DEF Unlinks, Links
<1>3. CASE AllocateLocal(w)
  <2> DEFINE p == local_cache[w][BucketOf(w)]
  <2>1. p \in Blocks /\ BucketOf(w) \in Buckets
    BY <1>1, <1>3, OnePoolCall DEF AllocateLocal, Pointer
  <2>2. local_cache' = [local_cache EXCEPT ![w] = [local_cache[w] EXCEPT ![BucketOf(w)] = link[p]]]
    BY <1>3 DEF AllocateLocal
  <2>3. CASE u = w /\ b = BucketOf(w)
    <3>1. x = link[p]
      BY <1>1, <2>1, <2>2, <2>3
    <3>2. link[p] = null
      BY <1>3, <2>3 DEF AllocateLocal, LargeAlone
    <3> QED BY <3>1, <3>2
  <2>4. CASE ~ (u = w /\ b = BucketOf(w))
    <3>1. x = local_cache[u][b]
      BY <1>1, <2>2, <2>4
    <3> QED BY <1>2, <2>4, <3>1
  <2> QED BY <2>3, <2>4
<1>4. CASE DeallocateLocal(w)
  <2>1. op[w].block \in Blocks /\ BucketOf(w) \in Buckets /\ BucketOf(w) \in Nat
    BY <1>1, <1>4, OnePoolCall DEF DeallocateLocal, HasItsArrays, WithBlock, Pointer
  <2>2. local_cache' = [local_cache EXCEPT ![w] = [local_cache[w] EXCEPT ![BucketOf(w)] = op[w].block]]
    BY <1>4 DEF DeallocateLocal
  <2>3. CASE u = w /\ b = BucketOf(w)
    <3>1. x = op[w].block
      BY <1>1, <2>1, <2>2, <2>3
    <3>2. ~ (BucketOf(w) < Threshold2)
      BY <2>1, <2>3, PoolAssumption DEF Large
    <3>3. local_cache[w][BucketOf(w)] = null
      BY <1>4, <3>2 DEF DeallocateLocal, Keeps
    <3> QED BY <1>1, <1>4, <2>1, <3>1, <3>3 DEF DeallocateLocal
  <2>4. CASE ~ (u = w /\ b = BucketOf(w))
    <3>1. x = local_cache[u][b] /\ ~ AllocateLocal(w)
      BY <1>1, <1>4, <2>2, <2>4 DEF AllocateLocal, DeallocateLocal
    <3> QED BY <1>2, <3>1
  <2> QED BY <2>3, <2>4
<1>5. CASE ~ AllocateLocal(w) /\ local_cache' = local_cache
  BY <1>2, <1>5
<1> QED BY <1>3, <1>4, <1>5, LocalSteps

-----------------------------------------------------------------------------
(* The sizes of blocks. *)

LEMMA CapacitySteps ==
  ASSUME PoolTypeOK, NEW w \in Workers, PoolStep(w)
  PROVE  New(w) \/ Delete(w) \/ block_size' = block_size
<1>1. CASE AllocateTryLock(w) \/ GlobalRead(w) \/ GlobalTake(w) \/ AllocateLocal(w)
  BY <1>1 DEF AllocateTryLock, GlobalRead, GlobalTake, AllocateLocal
<1>2. CASE DeallocateTryLock(w) \/ GlobalLink(w) \/ GlobalPush(w) \/ DeallocateLocal(w)
  BY <1>2 DEF DeallocateTryLock, GlobalLink, GlobalPush, DeallocateLocal
<1>3. CASE Unlock(w)
  BY <1>3 DEF Unlock
<1>4. ASSUME NEW a \in Arrays, NEW bytes \in 0..MaxBytes, Construct(w, a, bytes)
      PROVE  block_size' = block_size
  BY <1>4 DEF Construct
<1>5. ASSUME NEW a \in Arrays, NEW other \in Arrays \ {a}, MoveConstruct(w, a, other)
      PROVE  block_size' = block_size
  BY <1>5 DEF MoveConstruct
<1>6. ASSUME NEW a \in Arrays, NEW other \in Arrays \cup {null}, Release(w, a, other)
      PROVE  block_size' = block_size
  BY <1>6 DEF Release
<1> QED BY <1>1, <1>2, <1>3, <1>4, <1>5, <1>6 DEF PoolStep, Allocate, Deallocate

LEMMA SizeStays ==
  ASSUME PoolTypeOK, NEW w \in Workers, PoolStep(w), NEW x \in Blocks, block_size[x] # 0,
         Delete(w) => x # op[w].block
  PROVE  block_size'[x] = block_size[x]
<1>1. block_size = [q \in Blocks |-> block_size[q]]
  BY DEF PoolTypeOK
<1> QED BY <1>1, CapacitySteps DEF New, Delete

(* The block operator delete gets is nobody else's. *)
LEMMA DeletedAlone ==
  ASSUME PoolTypeOK, CallsAreApart, HeadsStay, Single, NEW w \in Workers, Delete(w)
  PROVE  /\ op[w].at # "take" /\ op[w].block # null
         /\ \A a \in Arrays : array[a].data # op[w].block
         /\ \A u \in Workers \ {w} : op[u].block # op[w].block
         /\ \A u \in Workers, b \in Buckets : local_cache[u][b] # op[w].block
         /\ \A b \in Large : global_cache[b] # op[w].block
         /\ \A q \in Blocks : link[q] # op[w].block
<1>1. op[w].at # "take" /\ op[w].block # null
  BY OnePoolCall DEF Delete, HasItsArrays, WithBlock
<1> QED BY <1>1, HeldAlone

LEMMA ArraySizes ==
  ASSUME Sound, PoolTypeOK', ~ closed, NEW w \in Workers, PoolStep(w), NEW a \in Arrays,
         array'[a].data # null
  PROVE  block_size'[array'[a].data] = 2 ^ Bucket(array'[a].size)
<1> USE DEF Sound
<1> DEFINE x == array'[a].data
<1>1. x \in Blocks /\ block_size = [q \in Blocks |-> block_size[q]]
  BY DEF PoolTypeOK, Pointer
<1>2. ASSUME NEW c \in Arrays, x = array[c].data, array'[a].size = array[c].size
      PROVE  block_size'[x] = 2 ^ Bucket(array'[a].size)
  <2>1. block_size[x] = 2 ^ Bucket(array[c].size)
    BY <1>2 DEF Sizes
  <2>2. array[c].size \in 1..MaxBytes
    <3>1. array[c].size \in 0..MaxBytes /\ array[c].size # 0
      BY <1>2 DEF PoolTypeOK, CallsAreApart
    <3> QED BY <3>1, PoolAssumption
  <2>3. block_size[x] # 0
    BY <2>1, <2>2, BucketsFit, SizesOfBuckets
  <2> QED BY <1>1, <1>2, <2>1, <2>3, SizeStays, DeletedAlone
<1>3. ASSUME Obtains(w, x), array'[a].size = op[w].bytes
      PROVE  block_size'[x] = 2 ^ Bucket(array'[a].size)
  <2>1. CASE AllocateLocal(w) /\ x = local_cache[w][BucketOf(w)]
    <3>1. block_size[x] = 2 ^ BucketOf(w) /\ block_size' = block_size
      BY <2>1, OnePoolCall DEF AllocateLocal, Sizes
    <3> QED BY <1>3, <3>1 DEF BucketOf
  <2>2. CASE New(w) /\ block_size' = [block_size EXCEPT ![x] = 2 ^ BucketOf(w)]
    <3>1. block_size'[x] = 2 ^ BucketOf(w)
      BY <1>1, <2>2
    <3> QED BY <1>3, <3>1 DEF BucketOf
  <2>3. CASE Unlock(w) /\ x = op[w].block /\ x # null
    <3>1. block_size[x] = 2 ^ BucketOf(w) /\ block_size' = block_size
      BY <2>3 DEF Unlock, Sizes
    <3> QED BY <1>3, <3>1 DEF BucketOf
  <2> QED BY <1>3, <2>1, <2>2, <2>3 DEF Obtains
<1> QED BY <1>2, <1>3, ArraySteps

LEMMA WorkerSizes ==
  ASSUME Sound, PoolTypeOK', ~ closed, NEW w \in Workers, PoolStep(w), NEW u \in Workers,
         op'[u].block # null
  PROVE  block_size'[op'[u].block] = 2 ^ BucketOf(u)'
<1> USE DEF Sound
<1> DEFINE x == op'[u].block
<1>1. x \in Blocks
  BY DEF PoolTypeOK, Pointer
<1>2. CASE u # w
  <2>1. op'[u] = op[u] /\ BucketOf(u)' = BucketOf(u)
    BY <1>2, OthersStay DEF BucketOf
  <2>2. block_size[x] = 2 ^ BucketOf(u)
    BY <2>1 DEF Sizes
  <2>3. block_size[x] # 0
    BY <2>1, <2>2, OnePoolCall DEF CallsAreApart, Outside
  <2> QED BY <1>1, <1>2, <2>1, <2>2, <2>3, SizeStays, DeletedAlone
<1>3. CASE u = w
  <2>1. CASE GlobalRead(w) /\ x = global_cache[BucketOf(w)] /\ op'[w].bytes = op[w].bytes
    <3>1. block_size[x] = 2 ^ BucketOf(w) /\ block_size' = block_size
      BY <1>1, <2>1, PoolAssumption DEF GlobalRead, Sizes, HeadsStay, Locked
    <3> QED BY <1>3, <2>1, <3>1 DEF BucketOf
  <2>2. CASE /\ GlobalTake(w) \/ DeallocateTryLock(w) \/ GlobalLink(w)
             /\ x = op[w].block /\ op'[w].bytes = op[w].bytes
    <3>1. block_size[x] = 2 ^ BucketOf(w) /\ block_size' = block_size
      BY <1>3, <2>2 DEF GlobalTake, DeallocateTryLock, GlobalLink, Sizes
    <3> QED BY <1>3, <2>2, <3>1 DEF BucketOf
  <2>3. ASSUME NEW a \in Arrays, NEW other \in Arrays \cup {null}, Release(w, a, other),
               x = array[a].data, op'[w].bytes = array[a].size
        PROVE  block_size'[op'[u].block] = 2 ^ BucketOf(u)'
    <3>1. block_size[x] = 2 ^ Bucket(array[a].size) /\ block_size' = block_size
      BY <1>3, <2>3 DEF Release, Sizes
    <3> QED BY <1>3, <2>3, <3>1 DEF BucketOf
  <2> QED BY <1>3, <2>1, <2>2, <2>3, BlockSteps
<1> QED BY <1>2, <1>3

LEMMA LocalSizes ==
  ASSUME Sound, PoolTypeOK', ~ closed, NEW w \in Workers, PoolStep(w),
         NEW u \in Workers, NEW b \in Buckets, local_cache'[u][b] # null
  PROVE  block_size'[local_cache'[u][b]] = 2 ^ b
<1> USE DEF Sound
<1> DEFINE x == local_cache'[u][b]
<1>1. x \in Blocks /\ local_cache \in [Workers -> [Buckets -> Pointer]] /\ 2 ^ b # 0
  BY SizesOfBuckets DEF PoolTypeOK, Pointer
<1>2. ASSUME x = local_cache[u][b] PROVE block_size'[x] = 2 ^ b
  <2>1. block_size[x] = 2 ^ b
    BY <1>2 DEF Sizes
  <2> QED BY <1>1, <1>2, <2>1, SizeStays, DeletedAlone
<1>3. CASE AllocateLocal(w)
  <2> DEFINE p == local_cache[w][BucketOf(w)]
  <2>1. p \in Blocks /\ BucketOf(w) \in Buckets
    BY <1>1, <1>3, OnePoolCall DEF AllocateLocal, Pointer
  <2>2. local_cache' = [local_cache EXCEPT ![w] = [local_cache[w] EXCEPT ![BucketOf(w)] = link[p]]]
    BY <1>3 DEF AllocateLocal
  <2>3. CASE u = w /\ b = BucketOf(w)
    <3>1. x = link[p]
      BY <1>1, <2>1, <2>2, <2>3
    <3>2. block_size[x] = block_size[p] /\ block_size[p] = 2 ^ b
      BY <1>1, <1>3, <2>1, <2>3, <3>1 DEF Sizes, AllocateLocal
    <3> QED BY <1>3, <3>2 DEF AllocateLocal
  <2>4. CASE ~ (u = w /\ b = BucketOf(w))
    <3>1. x = local_cache[u][b]
      BY <1>1, <2>2, <2>4
    <3> QED BY <1>2, <3>1
  <2> QED BY <2>3, <2>4
<1>4. CASE DeallocateLocal(w)
  <2>1. op[w].block \in Blocks /\ BucketOf(w) \in Buckets /\ op[w].block # null
    BY <1>1, <1>4, OnePoolCall DEF DeallocateLocal, HasItsArrays, WithBlock, Pointer
  <2>2. local_cache' = [local_cache EXCEPT ![w] = [local_cache[w] EXCEPT ![BucketOf(w)] = op[w].block]]
    BY <1>4 DEF DeallocateLocal
  <2>3. CASE u = w /\ b = BucketOf(w)
    <3>1. x = op[w].block
      BY <1>1, <2>1, <2>2, <2>3
    <3> QED BY <1>4, <2>1, <2>3, <3>1 DEF DeallocateLocal, Sizes
  <2>4. CASE ~ (u = w /\ b = BucketOf(w))
    <3>1. x = local_cache[u][b]
      BY <1>1, <2>2, <2>4
    <3> QED BY <1>2, <3>1
  <2> QED BY <2>3, <2>4
<1>5. CASE local_cache' = local_cache
  BY <1>2, <1>5
<1> QED BY <1>3, <1>4, <1>5, LocalSteps

LEMMA GlobalSizes ==
  ASSUME Sound, PoolTypeOK', ~ closed, NEW w \in Workers, PoolStep(w),
         NEW b \in Large, global_cache'[b] # null
  PROVE  block_size'[global_cache'[b]] = 2 ^ b
<1> USE DEF Sound
<1> DEFINE x == global_cache'[b]
<1>1. x \in Blocks /\ global_cache \in [Large -> Pointer] /\ 2 ^ b # 0
  BY SizesOfBuckets DEF PoolTypeOK, Pointer, Large
<1>2. ASSUME x = global_cache[b] PROVE block_size'[x] = 2 ^ b
  <2>1. block_size[x] = 2 ^ b
    BY <1>2 DEF Sizes
  <2> QED BY <1>1, <1>2, <2>1, SizeStays, DeletedAlone
<1>3. CASE GlobalTake(w)
  <2> DEFINE p == op[w].block
  <2>1. p \in Blocks /\ p # null
    BY <1>3, OnePoolCall DEF GlobalTake, HasItsArrays, WithBlock, Pointer
  <2>2. CASE b = BucketOf(w)
    <3>1. x = link[p]
      BY <1>1, <1>3, <2>1, <2>2 DEF GlobalTake
    <3>2. block_size[x] = block_size[p] /\ block_size[p] = 2 ^ b
      BY <1>1, <2>1, <2>2, <3>1 DEF Sizes
    <3> QED BY <1>3, <3>2 DEF GlobalTake
  <2>3. CASE b # BucketOf(w)
    <3>1. x = global_cache[b]
      BY <1>1, <1>3, <2>3 DEF GlobalTake
    <3> QED BY <1>2, <3>1
  <2> QED BY <2>2, <2>3
<1>4. CASE GlobalPush(w)
  <2>1. CASE b = BucketOf(w)
    <3>1. x = op[w].block
      BY <1>1, <1>4, <2>1 DEF GlobalPush
    <3> QED BY <1>4, <2>1, <3>1 DEF GlobalPush, Sizes
  <2>2. CASE b # BucketOf(w)
    <3>1. x = global_cache[b]
      BY <1>1, <1>4, <2>2 DEF GlobalPush
    <3> QED BY <1>2, <3>1
  <2> QED BY <2>1, <2>2
<1>5. CASE global_cache' = global_cache
  BY <1>2, <1>5
<1> QED BY <1>3, <1>4, <1>5, GlobalSteps

(* The links: each runs between two blocks of one size, which are there. *)
LEMMA LinkSizes ==
  ASSUME Sound, PoolTypeOK', ~ closed, NEW w \in Workers, PoolStep(w), NEW q \in Blocks
  PROVE  /\ link'[q] \in Blocks => block_size'[link'[q]] = block_size'[q]
         /\ link'[q] # UserData => block_size'[q] # 0
<1> USE DEF Sound
<1>1. /\ link \in [Blocks -> Pointer \cup {UserData}] /\ UserData \notin Blocks
      /\ null \notin Blocks
  BY PoolAssumption DEF PoolTypeOK
<1> DEFINE Goal == /\ link'[q] \in Blocks => block_size'[link'[q]] = block_size'[q]
                   /\ link'[q] # UserData => block_size'[q] # 0
<1>2. ASSUME link[q] # UserData, link'[q] = link[q] PROVE Goal
  <2>1. block_size[q] # 0 /\ (link[q] \in Blocks => block_size[link[q]] = block_size[q])
    BY <1>2 DEF Sizes
  <2>2. Delete(w) => q # op[w].block /\ link[q] # op[w].block
    <3>1. ASSUME Delete(w) PROVE q # op[w].block
      <4>1. link[op[w].block] = UserData
        BY <3>1, DeletedAlone DEF Delete, Marks
      <4> QED BY <1>2, <4>1
    <3> QED BY <3>1, DeletedAlone
  <2>3. block_size'[q] = block_size[q]
    BY <2>1, <2>2, SizeStays
  <2>4. link[q] \in Blocks => block_size'[link[q]] = block_size[link[q]]
    BY <2>1, <2>2, SizeStays
  <2> QED BY <1>2, <2>1, <2>3, <2>4
<1>3. ASSUME link'[q] = UserData PROVE Goal
  BY <1>1, <1>3
<1>4. CASE link'[q] = link[q]
  BY <1>2, <1>3, <1>4
<1>5. CASE AllocateLocal(w) /\ Unlinks(local_cache[w][BucketOf(w)])
  BY <1>1, <1>3, <1>4, <1>5 DEF Unlinks
<1>6. CASE GlobalTake(w) /\ Unlinks(op[w].block)
  BY <1>1, <1>3, <1>4, <1>6 DEF Unlinks
<1>7. ASSUME NEW h, op[w].at # "user", block_size' = block_size, Links(op[w].block, h),
             h \in Blocks => block_size[h] = 2 ^ BucketOf(w)
      PROVE  Goal
  <2>1. CASE q = op[w].block
    <3>1. link'[q] = h
      BY <1>1, <1>7, <2>1 DEF Links
    <3>2. block_size[q] = 2 ^ BucketOf(w) /\ 2 ^ BucketOf(w) # 0
      BY <1>1, <1>7, <2>1, OnePoolCall DEF Sizes, Links
    <3> QED BY <1>7, <3>1, <3>2
  <2>2. CASE q # op[w].block
    BY <1>1, <1>4, <1>7, <2>2 DEF Links
  <2> QED BY <2>1, <2>2
<1>8. CASE DeallocateLocal(w) /\ Links(op[w].block, local_cache[w][BucketOf(w)])
  <2>1. BucketOf(w) \in Buckets /\ op[w].at # "user" /\ block_size' = block_size
    BY <1>8, OnePoolCall DEF DeallocateLocal
  <2>2. local_cache[w][BucketOf(w)] \in Blocks =>
          block_size[local_cache[w][BucketOf(w)]] = 2 ^ BucketOf(w)
    BY <1>1, <2>1 DEF Sizes
  <2> QED BY <1>7, <1>8, <2>1, <2>2
<1>9. CASE GlobalLink(w) /\ Links(op[w].block, global_cache[BucketOf(w)])
  <2>1. BucketOf(w) \in Large /\ op[w].at # "user" /\ block_size' = block_size
    BY <1>9 DEF GlobalLink, HeadsStay, Locked
  <2>2. global_cache[BucketOf(w)] \in Blocks =>
          block_size[global_cache[BucketOf(w)]] = 2 ^ BucketOf(w)
    BY <1>1, <2>1 DEF Sizes
  <2> QED BY <1>7, <1>9, <2>1, <2>2
<1>10. CASE link' = link
  BY <1>4, <1>10
<1> QED BY <1>5, <1>6, <1>8, <1>9, <1>10, LinkSteps

LEMMA StepSizes ==
  ASSUME Sound, PoolTypeOK', ~ closed, NEW w \in Workers, PoolStep(w)
  PROVE  Sizes'
BY ArraySizes, WorkerSizes, LocalSizes, GlobalSizes, LinkSizes DEF Sizes

-----------------------------------------------------------------------------
(***************************************************************************)
(* References as functions.  A step passes a block from one reference to   *)
(* another, or several at once; no block is then referred to twice or      *)
(* forgotten.                                                              *)
(***************************************************************************)
Once(P)       == \A r, s \in Referrers : P[r] = P[s] /\ P[r] \in Blocks => r = s
Reaches(P, p) == \E r \in Referrers : P[r] = p

Pass(P, x, y) ==
  [r \in Referrers |-> IF r = x THEN P[y] ELSE IF r = y THEN null ELSE P[r]]

(* The block of other, if any, is handed to the empty a. *)
Hand(P, a, other) ==
  [r \in Referrers |->
     IF r = Arr(a) THEN IF other = null THEN null ELSE P[Arr(other)]
     ELSE IF r = Arr(other) THEN null ELSE P[r]]

Carries(P, Q) == Once(Q) /\ \A p \in Blocks : Reaches(P, p) <=> Reaches(Q, p)

LEMMA PassCarries ==
  ASSUME NEW P, Once(P), NEW x \in Referrers, NEW y \in Referrers, x # y, P[x] \notin Blocks
  PROVE  Carries(P, Pass(P, x, y))
<1> DEFINE Q == Pass(P, x, y)
<1>1. \A r \in Referrers : Q[r] = IF r = x THEN P[y] ELSE IF r = y THEN null ELSE P[r]
  BY DEF Pass
<1>2. null \notin Blocks
  BY PoolAssumption
<1> HIDE DEF Q
<1>3. Once(Q)
  <2> SUFFICES ASSUME NEW r \in Referrers, NEW s \in Referrers, Q[r] = Q[s], Q[r] \in Blocks
               PROVE  r = s
    BY DEF Once
  <2> QED BY <1>1, <1>2 DEF Once
<1>4. ASSUME NEW p \in Blocks, Reaches(P, p) PROVE Reaches(Q, p)
  <2>1. PICK r \in Referrers : P[r] = p
    BY <1>4 DEF Reaches
  <2>2. CASE r = y
    BY <1>1, <2>1, <2>2 DEF Reaches
  <2>3. CASE r # y
    <3>1. Q[r] = p
      BY <1>1, <2>1, <2>3
    <3> QED BY <3>1 DEF Reaches
  <2> QED BY <2>2, <2>3
<1>5. ASSUME NEW p \in Blocks, Reaches(Q, p) PROVE Reaches(P, p)
  <2>1. PICK r \in Referrers : Q[r] = p
    BY <1>5 DEF Reaches
  <2>2. CASE r = x
    BY <1>1, <2>1, <2>2 DEF Reaches
  <2>3. CASE r # x
    <3>1. P[r] = p
      BY <1>1, <1>2, <2>1, <2>3
    <3> QED BY <3>1 DEF Reaches
  <2> QED BY <2>2, <2>3
<1> QED BY <1>3, <1>4, <1>5 DEF Carries, Q

LEMMA HandCarries ==
  ASSUME NEW P, Once(P), NEW a \in Arrays,
         NEW other \in Arrays \cup {null}, other # a, P[Arr(a)] = null
  PROVE  Carries(P, Hand(P, a, other))
<1>1. CASE other = null
  <2>1. \A r \in Referrers : r # Arr(other)
    <3>1. other \notin Arrays
      BY <1>1, PoolAssumption
    <3> QED BY <3>1, Kinds, KindsDiffer
  <2>2. \A r \in Referrers : Hand(P, a, other)[r] = P[r]
    BY <1>1, <2>1 DEF Hand
  <2> QED BY <2>2 DEF Carries, Once, Reaches
<1>2. CASE other # null
  <2>1. Arr(a) \in Referrers /\ Arr(other) \in Referrers /\ Arr(a) # Arr(other)
        /\ null \notin Blocks
    BY <1>2, Refer, KindsDiffer, PoolAssumption
  <2>2. Hand(P, a, other) = Pass(P, Arr(a), Arr(other))
    BY <1>2 DEF Hand, Pass
  <2> QED BY <2>1, <2>2, PassCarries
<1> QED BY <1>1, <1>2

LEMMA CarriesOn ==
  ASSUME NEW P, NEW Q, NEW R, Carries(P, Q), Carries(Q, R)
  PROVE  Carries(P, R)
BY DEF Carries

(* Where all references point, before and after a step. *)
Before == [r \in Referrers |-> PointsTo(r)]
After  == [r \in Referrers |-> PointsTo(r)']

LEMMA ByKind ==
  ASSUME NEW F,
         \A a \in Arrays : array'[a].data = F[Arr(a)],
         \A u \in Workers : (IF op'[u].at = "take" THEN null ELSE op'[u].block) = F[Wrk(u)],
         \A u \in Workers, b \in Buckets : local_cache'[u][b] = F[Loc(u, b)],
         \A b \in Large : global_cache'[b] = F[Glo(b)],
         \A q \in Blocks :
           (IF link'[q] \in Blocks /\ ~ IsPushed(q)' THEN link'[q] ELSE null) = F[Lnk(q)]
  PROVE  \A r \in Referrers : After[r] = F[r]
<1> SUFFICES ASSUME NEW r \in Referrers PROVE PointsTo(r)' = F[r]
  BY DEF After
<1>1. ASSUME NEW a \in Arrays, r = Arr(a) PROVE PointsTo(r)' = F[r]
  BY <1>1, Pointing
<1>2. ASSUME NEW u \in Workers, r = Wrk(u) PROVE PointsTo(r)' = F[r]
  BY <1>2, Pointing
<1>3. ASSUME NEW u \in Workers, NEW b \in Buckets, r = Loc(u, b) PROVE PointsTo(r)' = F[r]
  BY <1>3, Pointing
<1>4. ASSUME NEW b \in Large, r = Glo(b) PROVE PointsTo(r)' = F[r]
  BY <1>4, Pointing
<1>5. ASSUME NEW q \in Blocks, r = Lnk(q) PROVE PointsTo(r)' = F[r]
  BY <1>5, Pointing
<1> QED BY <1>1, <1>2, <1>3, <1>4, <1>5, Kinds

LEMMA BeforeByKind ==
  /\ \A a \in Arrays : Before[Arr(a)] = array[a].data
  /\ \A u \in Workers : Before[Wrk(u)] = IF op[u].at = "take" THEN null ELSE op[u].block
  /\ \A u \in Workers, b \in Buckets : Before[Loc(u, b)] = local_cache[u][b]
  /\ \A b \in Large : Before[Glo(b)] = global_cache[b]
  /\ \A q \in Blocks :
       Before[Lnk(q)] = IF link[q] \in Blocks /\ ~ IsPushed(q) THEN link[q] ELSE null
BY Refer, Pointing DEF Before

(* Three references in a row: x gets the block of y, and y that of z. *)
Rotate(P, x, y, z) ==
  [r \in Referrers |-> IF r = x THEN P[y] ELSE IF r = y THEN P[z]
                       ELSE IF r = z THEN null ELSE P[r]]

LEMMA RotateCarries ==
  ASSUME NEW P, Once(P), NEW x \in Referrers, NEW y \in Referrers, NEW z \in Referrers,
         x # y, x # z, y # z, P[x] \notin Blocks
  PROVE  Carries(P, Rotate(P, x, y, z))
<1> DEFINE Q == Pass(P, x, y)
<1>1. Carries(P, Q)
  BY PassCarries
<1>2. Q[y] \notin Blocks /\ Once(Q)
  BY <1>1, PoolAssumption DEF Pass, Carries
<1>3. Carries(Q, Pass(Q, y, z))
  BY <1>2, PassCarries
<1>4. Pass(Q, y, z) = Rotate(P, x, y, z)
  BY DEF Pass, Rotate
<1> QED BY <1>1, <1>3, <1>4, CarriesOn

LEMMA SameCarries ==
  ASSUME NEW P, NEW Q, NEW R, Carries(P, Q), \A r \in Referrers : R[r] = Q[r]
  PROVE  Carries(P, R)
BY DEF Carries, Once, Reaches

LEMMA PushedStays ==
  ASSUME NEW w \in Workers, \A u \in Workers \ {w} : op'[u] = op[u],
         op[w].at # "push", op'[w].at # "push"
  PROVE  \A q : IsPushed(q)' <=> IsPushed(q)
BY DEF IsPushed

(* A worker that leaves its call hands one Array's block to another, if any. *)
LEMMA FinishHands ==
  ASSUME PoolTypeOK, CallsAreApart, NEW w \in Workers, Finish(w), op[w].at # "user"
  PROVE  /\ op[w].for \in Arrays /\ op[w].from \in Arrays \cup {null} /\ op[w].from # op[w].for
         /\ array[op[w].for].data = null
         /\ op'[w] = Outside /\ \A u \in Workers \ {w} : op'[u] = op[u]
         /\ \A a \in Arrays :
              array'[a].data = IF a = op[w].for THEN IF op[w].from = null THEN null
                                                     ELSE array[op[w].from].data
                               ELSE IF a = op[w].from THEN null ELSE array[a].data
<1>1. /\ op[w].for \in Arrays /\ op[w].from \in Arrays \cup {null} /\ op[w].from # op[w].for
      /\ array[op[w].for].data = null
  BY OnePoolCall DEF HasItsArrays
<1>2. array' = [c \in Arrays |-> IF c = op[w].for THEN IF op[w].from = null THEN NoArray
                                                        ELSE array[op[w].from]
                             ELSE IF c = op[w].from THEN MovedFrom ELSE array[c]]
  BY <1>1, Assigning DEF Finish
<1>3. NoArray.data = null /\ MovedFrom.data = null
  BY DEF NoArray, MovedFrom
<1>4. op'[w] = Outside /\ \A u \in Workers \ {w} : op'[u] = op[u]
  BY DEF Finish, PoolTypeOK
<1>5. ASSUME NEW a \in Arrays
      PROVE  array'[a].data = IF a = op[w].for THEN IF op[w].from = null THEN null
                                                     ELSE array[op[w].from].data
                               ELSE IF a = op[w].from THEN null ELSE array[a].data
  BY <1>1, <1>2, <1>3
<1> QED BY <1>1, <1>4, <1>5

LEMMA ReturnHands ==
  ASSUME PoolTypeOK, CallsAreApart, NEW w \in Workers, NEW p, Obtain(w, p), op[w].at # "user"
  PROVE  /\ op[w].for \in Arrays /\ array[op[w].for].data = null
         /\ op'[w] = Outside /\ \A u \in Workers \ {w} : op'[u] = op[u]
         /\ \A a \in Arrays : array'[a].data = IF a = op[w].for THEN p ELSE array[a].data
<1>1. op[w].for \in Arrays /\ array[op[w].for].data = null
  BY OnePoolCall DEF HasItsArrays
<1>2. array \in [Arrays -> ArrayType]
  BY DEF PoolTypeOK, ArrayType
<1>3. array' = [array EXCEPT ![op[w].for] = [array[op[w].for] EXCEPT !.data = p]]
  BY <1>1, <1>2 DEF Obtain
<1>4. array'[op[w].for].data = p /\ \A a \in Arrays \ {op[w].for} : array'[a] = array[a]
  BY <1>1, <1>2, <1>3 DEF ArrayType
<1>5. op'[w] = Outside /\ \A u \in Workers \ {w} : op'[u] = op[u]
  BY DEF Obtain, PoolTypeOK
<1> QED BY <1>1, <1>4, <1>5

LEMMA AllocateLocalCarries ==
  ASSUME Sound, NEW w \in Workers, AllocateLocal(w)
  PROVE  Carries(Before, After)
<1> USE DEF Sound
<1> DEFINE b == BucketOf(w)
           p == local_cache[w][b]
           x == Arr(op[w].for)
           y == Loc(w, b)
           z == Lnk(p)
           F == Rotate(Before, x, y, z)
<1>1. /\ op[w].at = "allocate" /\ b \in Buckets /\ p \in Blocks /\ Obtain(w, p)
      /\ op[w].block = null
  BY OnePoolCall DEF AllocateLocal, PoolTypeOK, Pointer, HasItsArrays, WithoutBlock
<1>2. /\ op[w].for \in Arrays /\ array[op[w].for].data = null
      /\ op'[w] = Outside /\ \A u \in Workers \ {w} : op'[u] = op[u]
      /\ \A a \in Arrays : array'[a].data = IF a = op[w].for THEN p ELSE array[a].data
  BY <1>1, ReturnHands
<1>3. \A q : IsPushed(q)' <=> IsPushed(q)
  BY <1>1, <1>2, PushedStays DEF Outside
<1>4. /\ ~ IsPushed(p) /\ link[p] \in Pointer
      /\ link \in [Blocks -> Pointer \cup {UserData}]
      /\ local_cache \in [Workers -> [Buckets -> Pointer]]
      /\ null \notin Blocks /\ UserData \notin Blocks
  BY <1>1, CachedAlone, PoolAssumption DEF IsPushed, AllocateLocal, PoolTypeOK, Marks
<1>5. /\ link' = [link EXCEPT ![p] = UserData] /\ global_cache' = global_cache
      /\ local_cache' = [local_cache EXCEPT ![w] = [local_cache[w] EXCEPT ![b] = link[p]]]
  BY DEF AllocateLocal
<1>6. /\ x \in Referrers /\ y \in Referrers /\ z \in Referrers /\ x # y /\ x # z /\ y # z
      /\ Before[x] = null /\ Before[y] = p /\ Before[z] = link[p]
  BY <1>1, <1>2, <1>4, Refer, KindsDiffer, BeforeByKind DEF Pointer
<1> HIDE DEF b, x, y, z, p
<1>7. ASSUME NEW a \in Arrays PROVE array'[a].data = F[Arr(a)]
  BY <1>2, <1>6, Refer, KindsDiffer, BeforeByKind DEF Rotate, x, y, z
<1>8. ASSUME NEW u \in Workers
      PROVE  (IF op'[u].at = "take" THEN null ELSE op'[u].block) = F[Wrk(u)]
  <2>1. F[Wrk(u)] = Before[Wrk(u)]
    BY Refer, KindsDiffer DEF Rotate, x, y, z
  <2> QED BY <1>1, <1>2, <2>1, BeforeByKind DEF Outside
<1>9. ASSUME NEW u \in Workers, NEW c \in Buckets PROVE local_cache'[u][c] = F[Loc(u, c)]
  <2>1. CASE u = w /\ c = b
    BY <1>1, <1>4, <1>5, <1>6, <2>1 DEF Rotate, y
  <2>2. CASE ~ (u = w /\ c = b)
    <3>1. F[Loc(u, c)] = Before[Loc(u, c)]
      BY <2>2, Refer, KindsDiffer DEF Rotate, x, y, z
    <3> QED BY <1>4, <1>5, <2>2, <3>1, BeforeByKind
  <2> QED BY <2>1, <2>2
<1>10. ASSUME NEW c \in Large PROVE global_cache'[c] = F[Glo(c)]
  <2>1. F[Glo(c)] = Before[Glo(c)]
    BY Refer, KindsDiffer DEF Rotate, x, y, z
  <2> QED BY <1>5, <2>1, BeforeByKind
<1>11. ASSUME NEW q \in Blocks
       PROVE  (IF link'[q] \in Blocks /\ ~ IsPushed(q)' THEN link'[q] ELSE null) = F[Lnk(q)]
  <2>1. CASE q = p
    BY <1>1, <1>4, <1>5, <1>6, <2>1, Refer DEF Rotate, z
  <2>2. CASE q # p
    <3>1. F[Lnk(q)] = Before[Lnk(q)]
      BY <2>2, Refer, KindsDiffer DEF Rotate, x, y, z
    <3> QED BY <1>3, <1>4, <1>5, <2>2, <3>1, BeforeByKind
  <2> QED BY <2>1, <2>2
<1>12. \A r \in Referrers : After[r] = F[r]
  BY <1>7, <1>8, <1>9, <1>10, <1>11, ByKind
<1>13. Carries(Before, F)
  <2>1. Once(Before)
    BY DEF Once, Single, Before
  <2>2. Before[x] \notin Blocks
    BY <1>4, <1>6
  <2> QED BY <1>6, <2>1, <2>2, RotateCarries
<1> QED BY <1>12, <1>13, SameCarries

LEMMA GlobalTakeCarries ==
  ASSUME Sound, NEW w \in Workers, GlobalTake(w)
  PROVE  Carries(Before, After)
<1> USE DEF Sound
<1> DEFINE b == BucketOf(w)
           p == op[w].block
           x == Wrk(w)
           y == Glo(b)
           z == Lnk(p)
           F == Rotate(Before, x, y, z)
<1>1. op[w].at = "take" /\ b \in Large /\ p \in Blocks /\ p # null /\ global_cache[b] = p
  BY OnePoolCall DEF GlobalTake, Pointer, HasItsArrays, WithBlock, HeadsStay, Locked
<1>2. /\ op'[w].at = "unlock" /\ op'[w].block = p
      /\ \A u \in Workers \ {w} : op'[u] = op[u]
  BY DEF GlobalTake, Goto, PoolTypeOK
<1>3. \A q : IsPushed(q)' <=> IsPushed(q)
  BY <1>1, <1>2, PushedStays
<1>4. /\ ~ IsPushed(p) /\ link[p] \in Pointer
      /\ link \in [Blocks -> Pointer \cup {UserData}]
      /\ global_cache \in [Large -> Pointer]
      /\ null \notin Blocks /\ UserData \notin Blocks
  <2>1. ~ IsPushed(p)
    <3>1. ASSUME NEW u \in Workers, op[u].at = "push" PROVE FALSE
      BY <1>1, <3>1 DEF OneHolder, Locked
    <3> QED BY <3>1 DEF IsPushed
  <2>2. link[p] # UserData
    BY <1>1 DEF Marks
  <2> QED BY <1>1, <2>1, <2>2, PoolAssumption DEF PoolTypeOK
<1>5. /\ link' = [link EXCEPT ![p] = UserData] /\ local_cache' = local_cache
      /\ global_cache' = [global_cache EXCEPT ![b] = link[p]] /\ array' = array
  BY DEF GlobalTake
<1>6. /\ x \in Referrers /\ y \in Referrers /\ z \in Referrers /\ x # y /\ x # z /\ y # z
      /\ Before[x] = null /\ Before[y] = p /\ Before[z] = link[p]
  BY <1>1, <1>4, Refer, KindsDiffer, BeforeByKind DEF Pointer
<1> HIDE DEF b, x, y, z, p
<1>7. ASSUME NEW a \in Arrays PROVE array'[a].data = F[Arr(a)]
  BY <1>5, Refer, KindsDiffer, BeforeByKind DEF Rotate, x, y, z
<1>8. ASSUME NEW u \in Workers
      PROVE  (IF op'[u].at = "take" THEN null ELSE op'[u].block) = F[Wrk(u)]
  <2>1. CASE u = w
    BY <1>2, <1>6, <2>1 DEF Rotate, x
  <2>2. CASE u # w
    <3>1. F[Wrk(u)] = Before[Wrk(u)]
      BY <2>2, Refer, KindsDiffer DEF Rotate, x, y, z
    <3> QED BY <1>2, <2>2, <3>1, BeforeByKind
  <2> QED BY <2>1, <2>2
<1>9. ASSUME NEW u \in Workers, NEW c \in Buckets PROVE local_cache'[u][c] = F[Loc(u, c)]
  <2>1. F[Loc(u, c)] = Before[Loc(u, c)]
    BY Refer, KindsDiffer DEF Rotate, x, y, z
  <2> QED BY <1>5, <2>1, BeforeByKind
<1>10. ASSUME NEW c \in Large PROVE global_cache'[c] = F[Glo(c)]
  <2>1. CASE c = b
    BY <1>1, <1>4, <1>5, <1>6, <2>1 DEF Rotate, y
  <2>2. CASE c # b
    <3>1. F[Glo(c)] = Before[Glo(c)]
      BY <2>2, Refer, KindsDiffer DEF Rotate, x, y, z
    <3> QED BY <1>4, <1>5, <2>2, <3>1, BeforeByKind
  <2> QED BY <2>1, <2>2
<1>11. ASSUME NEW q \in Blocks
       PROVE  (IF link'[q] \in Blocks /\ ~ IsPushed(q)' THEN link'[q] ELSE null) = F[Lnk(q)]
  <2>1. CASE q = p
    BY <1>1, <1>4, <1>5, <1>6, <2>1, Refer DEF Rotate, z
  <2>2. CASE q # p
    <3>1. F[Lnk(q)] = Before[Lnk(q)]
      BY <2>2, Refer, KindsDiffer DEF Rotate, x, y, z
    <3> QED BY <1>3, <1>4, <1>5, <2>2, <3>1, BeforeByKind
  <2> QED BY <2>1, <2>2
<1>12. \A r \in Referrers : After[r] = F[r]
  BY <1>7, <1>8, <1>9, <1>10, <1>11, ByKind
<1>13. Carries(Before, F)
  <2>1. Once(Before)
    BY DEF Once, Single, Before
  <2>2. Before[x] \notin Blocks
    BY <1>4, <1>6
  <2> QED BY <1>6, <2>1, <2>2, RotateCarries
<1> QED BY <1>12, <1>13, SameCarries

LEMMA GlobalPushCarries ==
  ASSUME Sound, NEW w \in Workers, GlobalPush(w)
  PROVE  Carries(Before, After)
<1> USE DEF Sound
<1> DEFINE b == BucketOf(w)
           p == op[w].block
           x == Lnk(p)
           y == Glo(b)
           z == Wrk(w)
           F == Rotate(Before, x, y, z)
<1>1. op[w].at = "push" /\ b \in Large /\ p \in Blocks /\ p # null /\ link[p] = global_cache[b]
  BY OnePoolCall DEF GlobalPush, Pointer, HasItsArrays, WithBlock, HeadsStay, Locked
<1>2. /\ op'[w].at = "pushed" /\ op'[w].block = null
      /\ \A u \in Workers \ {w} : op'[u] = op[u]
  BY DEF GlobalPush, PoolTypeOK
<1>3. \A u \in Workers \ {w} : op[u].at # "push"
  BY <1>1 DEF OneHolder, Locked
<1>4. /\ IsPushed(p) /\ \A q : ~ IsPushed(q)' /\ (q # p => ~ IsPushed(q))
      /\ link \in [Blocks -> Pointer \cup {UserData}]
      /\ global_cache \in [Large -> Pointer]
      /\ null \notin Blocks /\ UserData \notin Blocks
  <2>1. IsPushed(p) /\ \A q : ~ IsPushed(q)' /\ (q # p => ~ IsPushed(q))
    BY <1>1, <1>2, <1>3 DEF IsPushed
  <2> QED BY <2>1, PoolAssumption DEF PoolTypeOK
<1>5. /\ link' = link /\ local_cache' = local_cache
      /\ global_cache' = [global_cache EXCEPT ![b] = p] /\ array' = array
  BY DEF GlobalPush
<1>6. /\ x \in Referrers /\ y \in Referrers /\ z \in Referrers /\ x # y /\ x # z /\ y # z
      /\ Before[x] = null /\ Before[y] = link[p] /\ Before[z] = p
  BY <1>1, <1>4, Refer, KindsDiffer, BeforeByKind
<1> HIDE DEF b, x, y, z, p
<1>7. ASSUME NEW a \in Arrays PROVE array'[a].data = F[Arr(a)]
  BY <1>5, Refer, KindsDiffer, BeforeByKind DEF Rotate, x, y, z
<1>8. ASSUME NEW u \in Workers
      PROVE  (IF op'[u].at = "take" THEN null ELSE op'[u].block) = F[Wrk(u)]
  <2>1. CASE u = w
    BY <1>2, <1>6, <2>1 DEF Rotate, z
  <2>2. CASE u # w
    <3>1. F[Wrk(u)] = Before[Wrk(u)]
      BY <2>2, Refer, KindsDiffer DEF Rotate, x, y, z
    <3> QED BY <1>2, <2>2, <3>1, BeforeByKind
  <2> QED BY <2>1, <2>2
<1>9. ASSUME NEW u \in Workers, NEW c \in Buckets PROVE local_cache'[u][c] = F[Loc(u, c)]
  <2>1. F[Loc(u, c)] = Before[Loc(u, c)]
    BY Refer, KindsDiffer DEF Rotate, x, y, z
  <2> QED BY <1>5, <2>1, BeforeByKind
<1>10. ASSUME NEW c \in Large PROVE global_cache'[c] = F[Glo(c)]
  <2>1. CASE c = b
    BY <1>1, <1>4, <1>5, <1>6, <2>1 DEF Rotate, y
  <2>2. CASE c # b
    <3>1. F[Glo(c)] = Before[Glo(c)]
      BY <2>2, Refer, KindsDiffer DEF Rotate, x, y, z
    <3> QED BY <1>4, <1>5, <2>2, <3>1, BeforeByKind
  <2> QED BY <2>1, <2>2
<1>11. ASSUME NEW q \in Blocks
       PROVE  (IF link'[q] \in Blocks /\ ~ IsPushed(q)' THEN link'[q] ELSE null) = F[Lnk(q)]
  <2>1. CASE q = p
    <3>1. F[Lnk(q)] = link[p]
      BY <1>6, <2>1 DEF Rotate, x
    <3>2. link[p] \in Pointer
      BY <1>1, <1>4
    <3> QED BY <1>4, <1>5, <2>1, <3>1, <3>2 DEF Pointer
  <2>2. CASE q # p
    <3>1. F[Lnk(q)] = Before[Lnk(q)]
      BY <2>2, Refer, KindsDiffer DEF Rotate, x, y, z
    <3> QED BY <1>4, <1>5, <2>2, <3>1, BeforeByKind
  <2> QED BY <2>1, <2>2
<1>12. \A r \in Referrers : After[r] = F[r]
  BY <1>7, <1>8, <1>9, <1>10, <1>11, ByKind
<1>13. Carries(Before, F)
  <2>1. Once(Before)
    BY DEF Once, Single, Before
  <2>2. Before[x] \notin Blocks
    BY <1>4, <1>6
  <2> QED BY <1>6, <2>1, <2>2, RotateCarries
<1> QED BY <1>12, <1>13, SameCarries

LEMMA DeallocateLocalCarries ==
  ASSUME Sound, NEW w \in Workers, DeallocateLocal(w)
  PROVE  Carries(Before, After)
<1> USE DEF Sound
<1> DEFINE b == BucketOf(w)
           p == op[w].block
           x == Lnk(p)
           y == Loc(w, b)
           z == Wrk(w)
           G == Rotate(Before, x, y, z)
           a0 == op[w].for
           other == op[w].from
           F == Hand(G, a0, other)
<1>1. op[w].at = "deallocate" /\ b \in Buckets /\ p \in Blocks /\ p # null /\ Finish(w)
  BY OnePoolCall DEF DeallocateLocal, Pointer, HasItsArrays, WithBlock
<1>2. /\ a0 \in Arrays /\ other \in Arrays \cup {null} /\ other # a0
      /\ array[a0].data = null
      /\ op'[w] = Outside /\ \A u \in Workers \ {w} : op'[u] = op[u]
      /\ \A a \in Arrays :
           array'[a].data = IF a = a0 THEN IF other = null THEN null ELSE array[other].data
                            ELSE IF a = other THEN null ELSE array[a].data
  BY <1>1, FinishHands
<1>3. \A q : IsPushed(q)' <=> IsPushed(q)
  BY <1>1, <1>2, PushedStays DEF Outside
<1>4. /\ link[p] = UserData /\ ~ IsPushed(p)
      /\ link \in [Blocks -> Pointer \cup {UserData}]
      /\ local_cache \in [Workers -> [Buckets -> Pointer]]
      /\ null \notin Blocks /\ UserData \notin Blocks
  <2>1. link[p] = UserData
    BY <1>1 DEF Marks
  <2>2. ~ IsPushed(p)
    BY <1>1, HeldAlone DEF IsPushed
  <2> QED BY <2>1, <2>2, PoolAssumption DEF PoolTypeOK
<1>5. /\ link' = [link EXCEPT ![p] = local_cache[w][b]] /\ global_cache' = global_cache
      /\ local_cache' = [local_cache EXCEPT ![w] = [local_cache[w] EXCEPT ![b] = p]]
  BY DEF DeallocateLocal
<1>6. /\ x \in Referrers /\ y \in Referrers /\ z \in Referrers /\ x # y /\ x # z /\ y # z
      /\ Before[x] = null /\ Before[y] = local_cache[w][b] /\ Before[z] = p
  BY <1>1, <1>4, Refer, KindsDiffer, BeforeByKind
<1> HIDE DEF b, x, y, z, p, a0, other, G
<1>7. ASSUME NEW a \in Arrays PROVE array'[a].data = F[Arr(a)]
  <2>1. \A c \in Arrays : G[Arr(c)] = array[c].data
    BY Refer, KindsDiffer, BeforeByKind DEF G, Rotate, x, y, z
  <2>2. F[Arr(a)] = IF a = a0 THEN IF other = null THEN null ELSE G[Arr(other)]
                    ELSE IF a = other THEN null ELSE G[Arr(a)]
    BY Refer, KindsDiffer DEF Hand
  <2> QED BY <1>2, <2>1, <2>2
<1>8. \A r \in Referrers : (\A a : r # Arr(a)) => F[r] = G[r]
  BY DEF Hand
<1>9. ASSUME NEW u \in Workers
      PROVE  (IF op'[u].at = "take" THEN null ELSE op'[u].block) = F[Wrk(u)]
  <2>1. F[Wrk(u)] = G[Wrk(u)]
    BY <1>8, Refer, KindsDiffer
  <2>2. CASE u = w
    BY <1>2, <1>6, <2>1, <2>2 DEF G, Rotate, z, Outside
  <2>3. CASE u # w
    <3>1. G[Wrk(u)] = Before[Wrk(u)]
      BY <2>3, Refer, KindsDiffer DEF G, Rotate, x, y, z
    <3> QED BY <1>2, <2>1, <2>3, <3>1, BeforeByKind
  <2> QED BY <2>2, <2>3
<1>10. ASSUME NEW u \in Workers, NEW c \in Buckets PROVE local_cache'[u][c] = F[Loc(u, c)]
  <2>1. F[Loc(u, c)] = G[Loc(u, c)]
    BY <1>8, Refer, KindsDiffer
  <2>2. CASE u = w /\ c = b
    BY <1>1, <1>4, <1>5, <1>6, <2>1, <2>2 DEF G, Rotate, y
  <2>3. CASE ~ (u = w /\ c = b)
    <3>1. G[Loc(u, c)] = Before[Loc(u, c)]
      BY <2>3, Refer, KindsDiffer DEF G, Rotate, x, y, z
    <3> QED BY <1>4, <1>5, <2>1, <2>3, <3>1, BeforeByKind
  <2> QED BY <2>2, <2>3
<1>11. ASSUME NEW c \in Large PROVE global_cache'[c] = F[Glo(c)]
  <2>1. F[Glo(c)] = G[Glo(c)]
    BY <1>8, Refer, KindsDiffer
  <2>2. G[Glo(c)] = Before[Glo(c)]
    BY Refer, KindsDiffer DEF G, Rotate, x, y, z
  <2> QED BY <1>5, <2>1, <2>2, BeforeByKind
<1>12. ASSUME NEW q \in Blocks
       PROVE  (IF link'[q] \in Blocks /\ ~ IsPushed(q)' THEN link'[q] ELSE null) = F[Lnk(q)]
  <2>1. F[Lnk(q)] = G[Lnk(q)]
    BY <1>8, Refer, KindsDiffer
  <2>2. CASE q = p
    <3>1. G[Lnk(q)] = local_cache[w][b]
      BY <1>6, <2>2 DEF G, Rotate, x
    <3>2. link'[q] = local_cache[w][b] /\ local_cache[w][b] \in Pointer
      BY <1>1, <1>4, <1>5, <2>2
    <3> QED BY <1>3, <1>4, <2>1, <2>2, <3>1, <3>2 DEF Pointer
  <2>3. CASE q # p
    <3>1. G[Lnk(q)] = Before[Lnk(q)]
      BY <2>3, Refer, KindsDiffer DEF G, Rotate, x, y, z
    <3> QED BY <1>3, <1>4, <1>5, <2>1, <2>3, <3>1, BeforeByKind
  <2> QED BY <2>2, <2>3
<1>13. \A r \in Referrers : After[r] = F[r]
  BY <1>7, <1>9, <1>10, <1>11, <1>12, ByKind
<1>14. Carries(Before, G)
  <2>1. Once(Before)
    BY DEF Once, Single, Before
  <2>2. Before[x] \notin Blocks
    BY <1>4, <1>6
  <2> QED BY <1>6, <2>1, <2>2, RotateCarries DEF G
<1>15. Carries(G, F)
  <2>1. G[Arr(a0)] = null
    BY <1>2, Refer, KindsDiffer, BeforeByKind DEF G, Rotate, x, y, z
  <2>2. Once(G)
    BY <1>14 DEF Carries
  <2> QED BY <1>2, <2>1, <2>2, HandCarries
<1> QED BY <1>13, <1>14, <1>15, CarriesOn, SameCarries

LEMMA UnlockCarries ==
  ASSUME Sound, NEW w \in Workers, Unlock(w)
  PROVE  Carries(Before, After)
<1> USE DEF Sound
<1>1. /\ op[w].at \in {"unlock", "pushed"} /\ link' = link
      /\ local_cache' = local_cache /\ global_cache' = global_cache
  BY DEF Unlock, lists
<1>2. Once(Before) /\ null \notin Blocks
  BY PoolAssumption DEF Once, Single, Before
<1>3. /\ op[w].block \in Pointer /\ (op[w].at = "pushed" => op[w].block = null)
      /\ op[w].for \in Arrays /\ array[op[w].for].data = null
  BY <1>1, OnePoolCall DEF HasItsArrays, WithoutBlock
<1> DEFINE a0 == op[w].for
           other == op[w].from
           p == op[w].block
<1>4. ASSUME NEW F, Carries(Before, F),
             \A a \in Arrays : array'[a].data = F[Arr(a)],
             op'[w].at # "push", \A u \in Workers \ {w} : op'[u] = op[u],
             (IF op'[w].at = "take" THEN null ELSE op'[w].block) = F[Wrk(w)],
             \A r \in Referrers : (\A a : r # Arr(a)) /\ r # Wrk(w) => F[r] = Before[r]
      PROVE  Carries(Before, After)
  <2>1. \A q : IsPushed(q)' <=> IsPushed(q)
    BY <1>1, <1>4, PushedStays
  <2>2. ASSUME NEW u \in Workers
        PROVE  (IF op'[u].at = "take" THEN null ELSE op'[u].block) = F[Wrk(u)]
    <3>1. CASE u # w
      <4>1. F[Wrk(u)] = Before[Wrk(u)]
        BY <1>4, <3>1, Refer, KindsDiffer
      <4> QED BY <1>4, <3>1, <4>1, BeforeByKind
    <3> QED BY <1>4, <3>1
  <2>3. ASSUME NEW u \in Workers, NEW c \in Buckets PROVE local_cache'[u][c] = F[Loc(u, c)]
    <3>1. F[Loc(u, c)] = Before[Loc(u, c)]
      BY <1>4, Refer, KindsDiffer
    <3> QED BY <1>1, <3>1, BeforeByKind
  <2>4. ASSUME NEW c \in Large PROVE global_cache'[c] = F[Glo(c)]
    <3>1. F[Glo(c)] = Before[Glo(c)]
      BY <1>4, Refer, KindsDiffer
    <3> QED BY <1>1, <3>1, BeforeByKind
  <2>5. ASSUME NEW q \in Blocks
        PROVE  (IF link'[q] \in Blocks /\ ~ IsPushed(q)' THEN link'[q] ELSE null) = F[Lnk(q)]
    <3>1. F[Lnk(q)] = Before[Lnk(q)]
      BY <1>4, Refer, KindsDiffer
    <3> QED BY <1>1, <2>1, <3>1, BeforeByKind
  <2>6. \A r \in Referrers : After[r] = F[r]
    BY <1>4, <2>2, <2>3, <2>4, <2>5, ByKind
  <2> QED BY <1>4, <2>6, SameCarries
<1>5. CASE op[w].at = "pushed"
  <2> DEFINE F == Hand(Before, a0, other)
  <2>1. Finish(w)
    BY <1>5 DEF Unlock
  <2>2. /\ a0 \in Arrays /\ other \in Arrays \cup {null} /\ other # a0
        /\ op'[w] = Outside /\ \A u \in Workers \ {w} : op'[u] = op[u]
        /\ \A a \in Arrays :
             array'[a].data = IF a = a0 THEN IF other = null THEN null ELSE array[other].data
                              ELSE IF a = other THEN null ELSE array[a].data
    BY <1>5, <2>1, FinishHands
  <2> HIDE DEF a0, other
  <2>3. Before[Arr(a0)] = null
    BY <1>3, BeforeByKind DEF a0
  <2>4. Carries(Before, F)
    BY <1>2, <2>2, <2>3, HandCarries
  <2>5. \A r \in Referrers : (\A a : r # Arr(a)) => F[r] = Before[r]
    BY DEF Hand
  <2>6. ASSUME NEW a \in Arrays PROVE array'[a].data = F[Arr(a)]
    <3>1. F[Arr(a)] = IF a = a0 THEN IF other = null THEN null ELSE Before[Arr(other)]
                      ELSE IF a = other THEN null ELSE Before[Arr(a)]
      BY Refer, KindsDiffer DEF Hand
    <3> QED BY <2>2, <3>1, BeforeByKind
  <2>7. F[Wrk(w)] = null
    BY <1>3, <1>5, <2>5, Refer, KindsDiffer, BeforeByKind
  <2>8. op'[w].at = "user" /\ op'[w].block = null
    BY <2>2 DEF Outside
  <2> HIDE DEF F
  <2> QED BY <1>4, <2>2, <2>4, <2>5, <2>6, <2>7, <2>8
<1>6. CASE op[w].at # "pushed" /\ p # null
  <2> DEFINE x == Arr(a0)
             y == Wrk(w)
             F == Pass(Before, x, y)
  <2>1. Obtain(w, p) /\ op[w].at = "unlock"
    BY <1>1, <1>6 DEF Unlock
  <2>2. /\ a0 \in Arrays /\ op'[w] = Outside /\ \A u \in Workers \ {w} : op'[u] = op[u]
        /\ \A a \in Arrays : array'[a].data = IF a = a0 THEN p ELSE array[a].data
    BY <2>1, ReturnHands
  <2>3. /\ x \in Referrers /\ y \in Referrers /\ x # y
        /\ Before[x] = null /\ Before[y] = p
    BY <1>3, <2>1, Refer, KindsDiffer, BeforeByKind
  <2> HIDE DEF a0, p
  <2>4. Carries(Before, F)
    BY <1>2, <2>3, PassCarries
  <2>5. \A r \in Referrers : r # x /\ r # y => F[r] = Before[r]
    BY DEF Pass
  <2>6. F[x] = p /\ F[y] = null
    BY <2>3 DEF Pass
  <2>7. ASSUME NEW a \in Arrays PROVE array'[a].data = F[Arr(a)]
    <3>1. CASE a = a0
      BY <2>2, <2>6, <3>1
    <3>2. CASE a # a0
      BY <2>2, <2>5, <3>2, Refer, KindsDiffer, BeforeByKind
    <3> QED BY <3>1, <3>2
  <2>8. op'[w].at = "user" /\ op'[w].block = null
    BY <2>2 DEF Outside
  <2>9. \A r \in Referrers : (\A a : r # Arr(a)) /\ r # Wrk(w) => F[r] = Before[r]
    BY <2>5
  <2> HIDE DEF F
  <2> QED BY <1>4, <2>2, <2>4, <2>6, <2>7, <2>8, <2>9
<1>7. CASE op[w].at # "pushed" /\ p = null
  <2>1. Goto(w, "new") /\ array' = array /\ op[w].at = "unlock"
    BY <1>1, <1>7 DEF Unlock
  <2>2. op'[w].at = "new" /\ op'[w].block = null /\ \A u \in Workers \ {w} : op'[u] = op[u]
    BY <1>7, <2>1 DEF Goto, PoolTypeOK
  <2>3. Carries(Before, Before)
    BY <1>2 DEF Carries
  <2>4. Before[Wrk(w)] = null /\ \A a \in Arrays : array'[a].data = Before[Arr(a)]
    BY <1>7, <2>1, BeforeByKind
  <2> QED BY <1>4, <2>2, <2>3, <2>4
<1> QED BY <1>5, <1>6, <1>7

(* Steps that touch neither links nor lists: Arrays and one worker only. *)
LEMMA HandOverCarries ==
  ASSUME Sound, NEW w \in Workers, op[w] = Outside,
         link' = link, local_cache' = local_cache, global_cache' = global_cache,
         NEW a \in Arrays, NEW other \in Arrays \cup {null}, other # a, array[a].data = null,
         op' = op, array' = Assigned(a, other)
  PROVE  Carries(Before, After)
<1> USE DEF Sound
<1> DEFINE F == Hand(Before, a, other)
<1>1. array' = [c \in Arrays |-> IF c = a THEN IF other = null THEN NoArray ELSE array[other]
                                ELSE IF c = other THEN MovedFrom ELSE array[c]]
  BY Assigning
<1>2. NoArray.data = null /\ MovedFrom.data = null
  BY DEF NoArray, MovedFrom
<1>3. ASSUME NEW c \in Arrays PROVE array'[c].data = F[Arr(c)]
  <2>1. F[Arr(c)] = IF c = a THEN IF other = null THEN null ELSE Before[Arr(other)]
                    ELSE IF c = other THEN null ELSE Before[Arr(c)]
    BY Refer, KindsDiffer DEF Hand
  <2> QED BY <1>1, <1>2, <2>1, BeforeByKind
<1>4. \A r \in Referrers : (\A c : r # Arr(c)) => F[r] = Before[r]
  BY DEF Hand
<1> HIDE DEF F
<1>5. \A q : IsPushed(q)' <=> IsPushed(q)
  BY DEF IsPushed
<1>6. ASSUME NEW u \in Workers
      PROVE  (IF op'[u].at = "take" THEN null ELSE op'[u].block) = F[Wrk(u)]
  BY <1>4, Refer, KindsDiffer, BeforeByKind
<1>7. ASSUME NEW u \in Workers, NEW c \in Buckets PROVE local_cache'[u][c] = F[Loc(u, c)]
  BY <1>4, Refer, KindsDiffer, BeforeByKind
<1>8. ASSUME NEW c \in Large PROVE global_cache'[c] = F[Glo(c)]
  BY <1>4, Refer, KindsDiffer, BeforeByKind
<1>9. ASSUME NEW q \in Blocks
      PROVE  (IF link'[q] \in Blocks /\ ~ IsPushed(q)' THEN link'[q] ELSE null) = F[Lnk(q)]
  BY <1>4, <1>5, Refer, KindsDiffer, BeforeByKind
<1>10. \A r \in Referrers : After[r] = F[r]
  BY <1>3, <1>6, <1>7, <1>8, <1>9, ByKind
<1>11. Once(Before) /\ Before[Arr(a)] = null
  BY BeforeByKind DEF Once, Single, Before
<1>12. Carries(Before, F)
  BY <1>11, HandCarries DEF F
<1> QED BY <1>10, <1>12, SameCarries

LEMMA ReleaseCarries ==
  ASSUME Sound, NEW w \in Workers, NEW a \in Arrays, NEW other \in Arrays \cup {null},
         Release(w, a, other)
  PROVE  Carries(Before, After)
<1> USE DEF Sound
<1>1. /\ op[w] = Outside /\ link' = link
      /\ local_cache' = local_cache /\ global_cache' = global_cache /\ other # a
  BY PoolAssumption DEF Release, lists
<1>2. CASE array[a].data = null
  <2>1. op' = op /\ array' = Assigned(a, other)
    BY <1>2 DEF Release
  <2> QED BY <1>1, <1>2, <2>1, HandOverCarries
<1>3. CASE array[a].data # null
  <2> DEFINE x == Wrk(w)
             y == Arr(a)
             F == Pass(Before, x, y)
  <2>1. /\ op' = [op EXCEPT ![w] = [at |-> "deallocate", for |-> a, from |-> other,
                        block |-> array[a].data, bytes |-> array[a].size]]
        /\ array' = [array EXCEPT ![a] = [array[a] EXCEPT !.data = null]]
    BY <1>3 DEF Release
  <2>2. /\ op'[w].at = "deallocate" /\ op'[w].block = array[a].data
        /\ \A u \in Workers \ {w} : op'[u] = op[u]
        /\ array'[a].data = null /\ \A c \in Arrays \ {a} : array'[c] = array[c]
    BY <2>1 DEF PoolTypeOK
  <2>3. /\ x \in Referrers /\ y \in Referrers /\ x # y
        /\ Before[x] = null /\ Before[y] = array[a].data
    BY <1>1, Refer, KindsDiffer, BeforeByKind DEF Outside
  <2>4. Once(Before) /\ null \notin Blocks
    BY PoolAssumption DEF Once, Single, Before
  <2>5. Carries(Before, F)
    BY <2>3, <2>4, PassCarries
  <2>6. \A r \in Referrers : r # x /\ r # y => F[r] = Before[r]
    BY DEF Pass
  <2>7. F[x] = array[a].data /\ F[y] = null
    BY <2>3 DEF Pass
  <2> HIDE DEF F
  <2>8. \A q : IsPushed(q)' <=> IsPushed(q)
    BY <1>1, <2>2, PushedStays DEF Outside
  <2>9. ASSUME NEW c \in Arrays PROVE array'[c].data = F[Arr(c)]
    <3>1. CASE c = a
      BY <2>2, <2>7, <3>1
    <3>2. CASE c # a
      BY <2>2, <2>6, <3>2, Refer, KindsDiffer, BeforeByKind
    <3> QED BY <3>1, <3>2
  <2>10. ASSUME NEW u \in Workers
         PROVE  (IF op'[u].at = "take" THEN null ELSE op'[u].block) = F[Wrk(u)]
    <3>1. CASE u = w
      BY <2>2, <2>7, <3>1
    <3>2. CASE u # w
      BY <2>2, <2>6, <3>2, Refer, KindsDiffer, BeforeByKind
    <3> QED BY <3>1, <3>2
  <2>11. ASSUME NEW u \in Workers, NEW c \in Buckets PROVE local_cache'[u][c] = F[Loc(u, c)]
    BY <1>1, <2>6, Refer, KindsDiffer, BeforeByKind
  <2>12. ASSUME NEW c \in Large PROVE global_cache'[c] = F[Glo(c)]
    BY <1>1, <2>6, Refer, KindsDiffer, BeforeByKind
  <2>13. ASSUME NEW q \in Blocks
         PROVE  (IF link'[q] \in Blocks /\ ~ IsPushed(q)' THEN link'[q] ELSE null) = F[Lnk(q)]
    BY <1>1, <2>6, <2>8, Refer, KindsDiffer, BeforeByKind
  <2>14. \A r \in Referrers : After[r] = F[r]
    BY <2>9, <2>10, <2>11, <2>12, <2>13, ByKind
  <2> QED BY <2>5, <2>14, SameCarries
<1> QED BY <1>2, <1>3

(* Steps that change no reference. *)
LEMMA SameReferences ==
  ASSUME Sound, NEW w \in Workers,
         \A u \in Workers \ {w} : op'[u] = op[u],
         local_cache' = local_cache, global_cache' = global_cache,
         \A a \in Arrays : array'[a].data = array[a].data,
         (IF op'[w].at = "take" THEN null ELSE op'[w].block) =
           (IF op[w].at = "take" THEN null ELSE op[w].block),
         \A q \in Blocks :
           (IF link'[q] \in Blocks /\ ~ IsPushed(q)' THEN link'[q] ELSE null) =
             (IF link[q] \in Blocks /\ ~ IsPushed(q) THEN link[q] ELSE null)
  PROVE  Carries(Before, After)
<1> USE DEF Sound
<1>1. ASSUME NEW u \in Workers
      PROVE  (IF op'[u].at = "take" THEN null ELSE op'[u].block) = Before[Wrk(u)]
  <2>1. CASE u = w
    BY <2>1, BeforeByKind
  <2>2. CASE u # w
    BY <2>2, BeforeByKind
  <2> QED BY <2>1, <2>2
<1>2. \A r \in Referrers : After[r] = Before[r]
  BY <1>1, BeforeByKind, ByKind
<1>3. Carries(Before, Before)
  BY DEF Carries, Once, Single, Before
<1> QED BY <1>2, <1>3, SameCarries

LEMMA StayCarries ==
  ASSUME Sound, NEW w \in Workers,
         AllocateTryLock(w) \/ GlobalRead(w) \/ DeallocateTryLock(w) \/ GlobalLink(w)
  PROVE  Carries(Before, After)
<1> USE DEF Sound
<1>1. op \in [Workers -> CallType]
  BY DEF PoolTypeOK, CallType
<1>2. /\ local_cache' = local_cache /\ global_cache' = global_cache
      /\ \A a \in Arrays : array'[a].data = array[a].data
      /\ \A u \in Workers \ {w} : op'[u] = op[u]
  BY <1>1 DEF AllocateTryLock, GlobalRead, DeallocateTryLock, GlobalLink, Goto, lists
<1>3. ASSUME NEW place, Goto(w, place)
      PROVE  op'[w].at = place /\ op'[w].block = op[w].block
  BY <1>1, <1>3 DEF Goto, CallType
<1>4. ASSUME link' = link, op[w].at # "push", op'[w].at # "push"
      PROVE  \A q \in Blocks :
               (IF link'[q] \in Blocks /\ ~ IsPushed(q)' THEN link'[q] ELSE null) =
                 (IF link[q] \in Blocks /\ ~ IsPushed(q) THEN link[q] ELSE null)
  BY <1>2, <1>4, PushedStays
<1>5. CASE AllocateTryLock(w)
  <2>1. /\ op'[w].at \in {"pop", "new"} /\ op'[w].block = op[w].block
        /\ op[w].at = "allocate" /\ link' = link
    BY <1>3, <1>5 DEF AllocateTryLock
  <2> QED BY <1>2, <1>4, <2>1, SameReferences
<1>6. CASE GlobalRead(w)
  <2>1. /\ op[w].at = "pop" /\ op[w].block = null /\ link' = link
    BY <1>6, OnePoolCall DEF GlobalRead, HasItsArrays, WithoutBlock
  <2>2. /\ op'[w].at \in {"unlock", "take"} /\ (op'[w].at = "unlock" => op'[w].block = null)
    BY <1>1, <1>6 DEF GlobalRead, CallType
  <2> QED BY <1>2, <1>4, <2>1, <2>2, SameReferences
<1>7. CASE DeallocateTryLock(w)
  <2>1. /\ op'[w].at = "link" /\ op'[w].block = op[w].block
        /\ op[w].at = "deallocate" /\ link' = link
    BY <1>3, <1>7 DEF DeallocateTryLock
  <2> QED BY <1>2, <1>4, <2>1, SameReferences
<1>8. CASE GlobalLink(w)
  <2>1. /\ op'[w].at = "push" /\ op'[w].block = op[w].block
        /\ op[w].at = "link" /\ op[w].block # null /\ link[op[w].block] = UserData
    BY <1>3, <1>8, OnePoolCall DEF GlobalLink, HasItsArrays, WithBlock, Marks
  <2>2. ASSUME NEW q \in Blocks
        PROVE  (IF link'[q] \in Blocks /\ ~ IsPushed(q)' THEN link'[q] ELSE null) =
                 (IF link[q] \in Blocks /\ ~ IsPushed(q) THEN link[q] ELSE null)
    <3>1. CASE q = op[w].block
      <4>1. IsPushed(q)'
        BY <2>1, <3>1 DEF IsPushed
      <4> QED BY <2>1, <3>1, <4>1, PoolAssumption
    <3>2. CASE q # op[w].block
      <4>1. IsPushed(q)' <=> IsPushed(q)
        BY <1>2, <2>1, <3>2 DEF IsPushed
      <4>2. link'[q] = link[q]
        BY <1>8, <3>2 DEF GlobalLink, PoolTypeOK
      <4> QED BY <4>1, <4>2
    <3> QED BY <3>1, <3>2
  <2> QED BY <1>2, <2>1, <2>2, SameReferences
<1> QED BY <1>5, <1>6, <1>7, <1>8

LEMMA ConstructCarries ==
  ASSUME Sound, NEW w \in Workers, NEW a \in Arrays, NEW bytes \in 0..MaxBytes,
         Construct(w, a, bytes)
  PROVE  Carries(Before, After)
<1> USE DEF Sound
<1>1. array[a].data = null /\ op[w] = Outside
  BY DEF Construct, CallsAreApart
<1>2. /\ local_cache' = local_cache /\ global_cache' = global_cache /\ link' = link
      /\ \A c \in Arrays : array'[c].data = array[c].data
      /\ \A u \in Workers \ {w} : op'[u] = op[u]
  BY <1>1 DEF Construct, lists, PoolTypeOK
<1>3. op'[w].at \in {"user", "allocate"} /\ op'[w].block = null
  BY <1>1 DEF Construct, Outside, PoolTypeOK
<1>4. op[w].block = null /\ op[w].at = "user"
  BY <1>1 DEF Outside
<1>5. \A q : IsPushed(q)' <=> IsPushed(q)
  BY <1>2, <1>3, <1>4, PushedStays
<1> QED BY <1>2, <1>3, <1>4, <1>5, SameReferences

(* All steps but New and Delete, which have a block more or less. *)
LEMMA StepCarries ==
  ASSUME Sound, NEW w \in Workers, PoolStep(w), ~ New(w), ~ Delete(w)
  PROVE  Carries(Before, After)
<1>1. ASSUME NEW a \in Arrays, NEW other \in Arrays \ {a}, MoveConstruct(w, a, other)
      PROVE  Carries(Before, After)
  <2>1. /\ op[w] = Outside /\ link' = link /\ op' = op
        /\ local_cache' = local_cache /\ global_cache' = global_cache
        /\ array[a].data = null /\ array' = Assigned(a, other)
    BY <1>1 DEF MoveConstruct, lists, Sound, CallsAreApart
  <2> QED BY <2>1, HandOverCarries
<1> QED BY <1>1, AllocateLocalCarries, GlobalTakeCarries, GlobalPushCarries, DeallocateLocalCarries,
           UnlockCarries, ReleaseCarries, StayCarries, ConstructCarries
        DEF PoolStep, Allocate, Deallocate

LEMMA NewReferences ==
  ASSUME Sound, ~ closed, NEW w \in Workers, New(w)
  PROVE  /\ Once(After)
         /\ \A p \in Blocks : Reaches(Before, p) \/ (block_size[p] = 0 /\ block_size'[p] # 0)
                                => Reaches(After, p)
<1> USE DEF Sound
<1>1. PICK p \in Blocks : /\ block_size[p] = 0 /\ Obtain(w, p)
                          /\ block_size' = [block_size EXCEPT ![p] = 2 ^ BucketOf(w)]
  BY DEF New
<1>2. op[w].at = "new" /\ op[w].block = null
  BY OnePoolCall DEF New, HasItsArrays, WithoutBlock
<1>3. /\ op[w].for \in Arrays /\ array[op[w].for].data = null
      /\ op'[w] = Outside /\ \A u \in Workers \ {w} : op'[u] = op[u]
      /\ \A a \in Arrays : array'[a].data = IF a = op[w].for THEN p ELSE array[a].data
  BY <1>1, <1>2, ReturnHands
<1>4. link' = link /\ local_cache' = local_cache /\ global_cache' = global_cache
  BY DEF New, lists
<1> DEFINE x == Arr(op[w].for)
           F == [r \in Referrers |-> IF r = x THEN p ELSE Before[r]]
<1>5. x \in Referrers /\ Before[x] = null /\ null \notin Blocks
  BY <1>3, Refer, BeforeByKind, PoolAssumption
<1>6. \A q : IsPushed(q)' <=> IsPushed(q)
  BY <1>2, <1>3, PushedStays DEF Outside
<1>7. ASSUME NEW a \in Arrays PROVE array'[a].data = F[Arr(a)]
  BY <1>3, Refer, KindsDiffer, BeforeByKind
<1>8. ASSUME NEW u \in Workers
      PROVE  (IF op'[u].at = "take" THEN null ELSE op'[u].block) = F[Wrk(u)]
  <2>1. F[Wrk(u)] = Before[Wrk(u)]
    BY Refer, KindsDiffer
  <2> QED BY <1>2, <1>3, <2>1, BeforeByKind DEF Outside
<1>9. ASSUME NEW u \in Workers, NEW c \in Buckets PROVE local_cache'[u][c] = F[Loc(u, c)]
  BY <1>4, Refer, KindsDiffer, BeforeByKind
<1>10. ASSUME NEW c \in Large PROVE global_cache'[c] = F[Glo(c)]
  BY <1>4, Refer, KindsDiffer, BeforeByKind
<1>11. ASSUME NEW q \in Blocks
       PROVE  (IF link'[q] \in Blocks /\ ~ IsPushed(q)' THEN link'[q] ELSE null) = F[Lnk(q)]
  BY <1>4, <1>6, Refer, KindsDiffer, BeforeByKind
<1>12. \A r \in Referrers : After[r] = F[r]
  <2> HIDE DEF F
  <2> QED BY <1>7, <1>8, <1>9, <1>10, <1>11, ByKind
<1>13. \A r \in Referrers : Before[r] # p
  <2>1. \A a \in Arrays : array[a].data # p
    <3>1. ASSUME NEW a \in Arrays, array[a].data = p PROVE FALSE
      <4>1. array[a].size \in 0..MaxBytes /\ array[a].size # 0
        BY <1>1, <3>1, PoolAssumption DEF PoolTypeOK, CallsAreApart
      <4>2. array[a].size \in 1..MaxBytes
        BY <4>1, PoolAssumption
      <4>3. block_size[p] # 0
        BY <1>1, <3>1, <4>2, BucketsFit, SizesOfBuckets, PoolAssumption DEF Sizes
      <4> QED BY <1>1, <4>3
    <3> QED BY <3>1
  <2>2. \A u \in Workers : op[u].block # p
    <3>1. ASSUME NEW u \in Workers, op[u].block = p PROVE FALSE
      <4>1. op[u].at # "user"
        BY <1>1, <1>5, <3>1 DEF CallsAreApart, Outside
      <4>2. block_size[p] # 0
        BY <1>1, <1>5, <3>1, <4>1, OnePoolCall DEF Sizes
      <4> QED BY <1>1, <4>2
    <3> QED BY <3>1
  <2>3. \A u \in Workers, c \in Buckets : local_cache[u][c] # p
    BY <1>1, <1>5, SizesOfBuckets DEF Sizes
  <2>4. \A c \in Large : global_cache[c] # p
    BY <1>1, <1>5, SizesOfBuckets DEF Sizes, Large
  <2>5. \A q \in Blocks : link[q] # p
    <3>1. ASSUME NEW q \in Blocks, link[q] = p PROVE FALSE
      BY <1>1, <3>1, PoolAssumption DEF Sizes
    <3> QED BY <3>1
  <2>6. ASSUME NEW r \in Referrers PROVE Before[r] # p
    <3>1. ASSUME NEW a \in Arrays, r = Arr(a) PROVE Before[r] # p
      BY <2>1, <3>1, BeforeByKind
    <3>2. ASSUME NEW u \in Workers, r = Wrk(u) PROVE Before[r] # p
      BY <1>1, <1>5, <2>2, <3>2, BeforeByKind
    <3>3. ASSUME NEW u \in Workers, NEW c \in Buckets, r = Loc(u, c) PROVE Before[r] # p
      BY <2>3, <3>3, BeforeByKind
    <3>4. ASSUME NEW c \in Large, r = Glo(c) PROVE Before[r] # p
      BY <2>4, <3>4, BeforeByKind
    <3>5. ASSUME NEW q \in Blocks, r = Lnk(q) PROVE Before[r] # p
      BY <1>1, <1>5, <2>5, <3>5, BeforeByKind
    <3> QED BY <3>1, <3>2, <3>3, <3>4, <3>5, Kinds
  <2> QED BY <2>6
<1>14. Once(Before)
  BY DEF Once, Single, Before
<1> HIDE DEF F
<1>15. \A r \in Referrers : After[r] = IF r = x THEN p ELSE Before[r]
  BY <1>12 DEF F
<1> HIDE DEF x
<1>16. Once(After)
  <2> SUFFICES ASSUME NEW r \in Referrers, NEW s \in Referrers,
                      After[r] = After[s], After[r] \in Blocks
               PROVE  r = s
    BY DEF Once
  <2> QED BY <1>13, <1>14, <1>15 DEF Once
<1>17. ASSUME NEW q \in Blocks, Reaches(Before, q) PROVE Reaches(After, q)
  <2>1. PICK r \in Referrers : Before[r] = q
    BY <1>17 DEF Reaches
  <2>2. After[r] = q
    BY <1>5, <1>15, <2>1
  <2> QED BY <2>2 DEF Reaches
<1>18. ASSUME NEW q \in Blocks, block_size[q] = 0, block_size'[q] # 0 PROVE Reaches(After, q)
  <2>1. q = p
    BY <1>1, <1>18 DEF PoolTypeOK
  <2> QED BY <1>5, <1>15, <2>1 DEF Reaches
<1> QED BY <1>16, <1>17, <1>18

LEMMA DeleteReferences ==
  ASSUME Sound, ~ closed, NEW w \in Workers, Delete(w)
  PROVE  /\ Once(After)
         /\ \A p \in Blocks : Reaches(Before, p) /\ p # op[w].block => Reaches(After, p)
<1> USE DEF Sound
<1> DEFINE p == op[w].block
           x == Wrk(w)
           a0 == op[w].for
           other == op[w].from
           G == [r \in Referrers |-> IF r = x THEN null ELSE Before[r]]
           F == Hand(G, a0, other)
<1>1. op[w].at = "deallocate" /\ Finish(w) /\ null \notin Blocks
  BY PoolAssumption DEF Delete
<1>2. /\ a0 \in Arrays /\ other \in Arrays \cup {null} /\ other # a0
      /\ array[a0].data = null
      /\ op'[w] = Outside /\ \A u \in Workers \ {w} : op'[u] = op[u]
      /\ \A a \in Arrays :
           array'[a].data = IF a = a0 THEN IF other = null THEN null ELSE array[other].data
                            ELSE IF a = other THEN null ELSE array[a].data
  BY <1>1, FinishHands
<1>3. \A q : IsPushed(q)' <=> IsPushed(q)
  BY <1>1, <1>2, PushedStays DEF Outside
<1>4. link' = link /\ local_cache' = local_cache /\ global_cache' = global_cache
  BY DEF Delete, lists
<1>5. x \in Referrers /\ Before[x] = p
  BY <1>1, Refer, BeforeByKind
<1> HIDE DEF a0, other, p
<1>6. \A r \in Referrers : r # x => G[r] = Before[r]
  OBVIOUS
<1>7. G[x] = null
  BY <1>5
<1> HIDE DEF G
<1>8. \A r \in Referrers : (\A a : r # Arr(a)) => F[r] = G[r]
  BY DEF Hand
<1>9. ASSUME NEW a \in Arrays PROVE array'[a].data = F[Arr(a)]
  <2>1. \A c \in Arrays : G[Arr(c)] = array[c].data
    BY <1>6, Refer, KindsDiffer, BeforeByKind
  <2>2. F[Arr(a)] = IF a = a0 THEN IF other = null THEN null ELSE G[Arr(other)]
                    ELSE IF a = other THEN null ELSE G[Arr(a)]
    BY Refer, KindsDiffer DEF Hand
  <2> QED BY <1>2, <2>1, <2>2
<1>10. ASSUME NEW u \in Workers
       PROVE  (IF op'[u].at = "take" THEN null ELSE op'[u].block) = F[Wrk(u)]
  <2>1. F[Wrk(u)] = G[Wrk(u)]
    BY <1>8, Refer, KindsDiffer
  <2>2. CASE u = w
    BY <1>2, <1>7, <2>1, <2>2 DEF Outside
  <2>3. CASE u # w
    <3>1. G[Wrk(u)] = Before[Wrk(u)]
      BY <1>6, <2>3, Refer, KindsDiffer
    <3> QED BY <1>2, <2>1, <2>3, <3>1, BeforeByKind
  <2> QED BY <2>2, <2>3
<1>11. ASSUME NEW u \in Workers, NEW c \in Buckets PROVE local_cache'[u][c] = F[Loc(u, c)]
  <2>1. F[Loc(u, c)] = Before[Loc(u, c)]
    BY <1>6, <1>8, Refer, KindsDiffer
  <2> QED BY <1>4, <2>1, BeforeByKind
<1>12. ASSUME NEW c \in Large PROVE global_cache'[c] = F[Glo(c)]
  <2>1. F[Glo(c)] = Before[Glo(c)]
    BY <1>6, <1>8, Refer, KindsDiffer
  <2> QED BY <1>4, <2>1, BeforeByKind
<1>13. ASSUME NEW q \in Blocks
       PROVE  (IF link'[q] \in Blocks /\ ~ IsPushed(q)' THEN link'[q] ELSE null) = F[Lnk(q)]
  <2>1. F[Lnk(q)] = Before[Lnk(q)]
    BY <1>6, <1>8, Refer, KindsDiffer
  <2> QED BY <1>3, <1>4, <2>1, BeforeByKind
<1>14. \A r \in Referrers : After[r] = F[r]
  <2> HIDE DEF F
  <2> QED BY <1>9, <1>10, <1>11, <1>12, <1>13, ByKind
<1>15. Once(G) /\ \A q \in Blocks : Reaches(Before, q) /\ q # p => Reaches(G, q)
  <2>1. Once(G)
    <3>1. Once(Before)
      BY DEF Once, Single, Before
    <3> QED BY <1>1, <1>6, <1>7, <3>1 DEF Once
  <2>2. ASSUME NEW q \in Blocks, Reaches(Before, q), q # p PROVE Reaches(G, q)
    BY <1>5, <1>6, <2>2 DEF Reaches
  <2> QED BY <2>1, <2>2
<1>16. Carries(G, F)
  <2>1. G[Arr(a0)] = null
    BY <1>2, <1>6, Refer, KindsDiffer, BeforeByKind
  <2> QED BY <1>2, <1>15, <2>1, HandCarries
<1>17. Carries(G, After)
  <2> HIDE DEF F
  <2> QED BY <1>14, <1>16, SameCarries
<1> QED BY <1>15, <1>17 DEF Carries, p

LEMMA StepSingle ==
  ASSUME Sound, ~ closed, NEW w \in Workers, PoolStep(w)
  PROVE  Single'
<1>1. Once(After)
  BY StepCarries, NewReferences, DeleteReferences DEF Carries
<1> QED BY <1>1 DEF Once, Single, After

LEMMA StepGiven ==
  ASSUME Sound, ~ closed, NEW w \in Workers, PoolStep(w)
  PROVE  Given'
<1> SUFFICES ASSUME NEW p \in Blocks, block_size'[p] # 0
             PROVE  \E r \in Referrers : PointsTo(r)' = p
  BY DEF Given
<1> SUFFICES Reaches(After, p)
  BY DEF Reaches, After
<1>1. block_size[p] # 0 => Reaches(Before, p)
  BY DEF Sound, Given, Reaches, Before
<1>2. block_size \in [Blocks -> {0} \cup {2 ^ b : b \in Buckets}]
  BY DEF Sound, PoolTypeOK
<1>3. CASE New(w)
  BY <1>1, <1>3, NewReferences
<1>4. CASE Delete(w)
  <2>1. p # op[w].block /\ block_size[p] # 0
    BY <1>2, <1>4 DEF Delete
  <2> QED BY <1>1, <1>4, <2>1, DeleteReferences
<1>5. CASE ~ New(w) /\ ~ Delete(w)
  <2>1. block_size' = block_size /\ Carries(Before, After)
    BY <1>5, CapacitySteps, StepCarries DEF Sound
  <2> QED BY <1>1, <2>1 DEF Carries
<1> QED BY <1>3, <1>4, <1>5

-----------------------------------------------------------------------------
(***************************************************************************)
(* Lists stay without circles: a step removes links, or puts a block that  *)
(* nothing links to before a list.                                         *)
(***************************************************************************)
LEMMA HeadsShrink ==
  ASSUME ListsHaveHeads,
         \A q \in Blocks : \/ PointsTo(<<"link", q>>)' = PointsTo(<<"link", q>>)
                           \/ PointsTo(<<"link", q>>)' \notin Blocks
  PROVE  ListsHaveHeads'
<1> SUFFICES ASSUME NEW S \in SUBSET Blocks, S # {}
             PROVE  \E p \in S : \A q \in S : PointsTo(<<"link", q>>)' # p
  BY DEF ListsHaveHeads
<1>1. PICK p \in S : \A q \in S : PointsTo(<<"link", q>>) # p
  BY DEF ListsHaveHeads
<1> QED BY <1>1

LEMMA HeadsGrow ==
  ASSUME ListsHaveHeads, NEW h \in Blocks,
         \A q \in Blocks : PointsTo(<<"link", q>>)' # h,
         \A q \in Blocks \ {h} : \/ PointsTo(<<"link", q>>)' = PointsTo(<<"link", q>>)
                                 \/ PointsTo(<<"link", q>>)' \notin Blocks
  PROVE  ListsHaveHeads'
<1> SUFFICES ASSUME NEW S \in SUBSET Blocks, S # {}
             PROVE  \E p \in S : \A q \in S : PointsTo(<<"link", q>>)' # p
  BY DEF ListsHaveHeads
<1>1. CASE h \in S
  BY <1>1
<1>2. CASE h \notin S
  <2>1. PICK p \in S : \A q \in S : PointsTo(<<"link", q>>) # p
    BY DEF ListsHaveHeads
  <2> QED BY <1>2, <2>1
<1> QED BY <1>1, <1>2

LEMMA PushedSteps ==
  ASSUME PoolTypeOK, CallsAreApart, NEW w \in Workers, PoolStep(w), NEW q, IsPushed(q), ~ IsPushed(q)'
  PROVE  GlobalPush(w) /\ q = op[w].block
<1>1. PICK u \in Workers : op[u].at = "push" /\ op[u].block = q
  BY DEF IsPushed
<1>2. u = w
  <2>1. u # w => op'[u] = op[u]
    BY OneMoves
  <2> QED BY <1>1, <2>1 DEF IsPushed
<1>3. op[w].at = "push" /\ op[w] # Outside
  BY <1>1, <1>2 DEF Outside
<1> QED BY <1>1, <1>2, <1>3
        DEF PoolStep, Allocate, Deallocate, AllocateLocal, AllocateTryLock, GlobalRead, GlobalTake, New,
            DeallocateLocal, DeallocateTryLock, GlobalLink, Delete, Unlock,
            Construct, MoveConstruct, Release

LEMMA StepLists ==
  ASSUME Sound, PoolTypeOK', ~ closed, NEW w \in Workers, PoolStep(w)
  PROVE  ListsHaveHeads'
<1> USE DEF Sound
<1>1. /\ link \in [Blocks -> Pointer \cup {UserData}] /\ UserData \notin Blocks
      /\ null \notin Blocks
  BY PoolAssumption DEF PoolTypeOK
<1>2. \A q : /\ PointsTo(<<"link", q>>) =
                  (IF link[q] \in Blocks /\ ~ IsPushed(q) THEN link[q] ELSE null)
             /\ PointsTo(<<"link", q>>)' =
                  (IF link'[q] \in Blocks /\ ~ IsPushed(q)' THEN link'[q] ELSE null)
  BY Pointing, Zenon DEF Lnk
<1>3. ASSUME NEW q \in Blocks, link'[q] = link[q] \/ link'[q] \notin Blocks,
             ~ (GlobalPush(w) /\ q = op[w].block)
      PROVE  \/ PointsTo(<<"link", q>>)' = PointsTo(<<"link", q>>)
             \/ PointsTo(<<"link", q>>)' \notin Blocks
  BY <1>1, <1>2, <1>3, PushedSteps
<1>4. CASE GlobalPush(w)
  <2> DEFINE p == op[w].block
  <2>1. op[w].at = "push" /\ p # null /\ p \in Blocks /\ link' = link
    BY <1>4, OnePoolCall DEF GlobalPush, HasItsArrays, WithBlock, Pointer
  <2>2. \A q \in Blocks : link[q] # p
    BY <2>1, HeldAlone
  <2>3. \A q \in Blocks : PointsTo(<<"link", q>>)' # p
    BY <1>1, <1>2, <2>1, <2>2
  <2> HIDE DEF p
  <2>4. \A q \in Blocks \ {p} : \/ PointsTo(<<"link", q>>)' = PointsTo(<<"link", q>>)
                                \/ PointsTo(<<"link", q>>)' \notin Blocks
    BY <1>3, <2>1 DEF p
  <2> QED BY <2>1, <2>3, <2>4, HeadsGrow
<1>5. CASE DeallocateLocal(w) /\ Links(op[w].block, local_cache[w][BucketOf(w)])
  <2> DEFINE p == op[w].block
             h == local_cache[w][BucketOf(w)]
  <2>1. /\ op[w].at = "deallocate" /\ p # null /\ p \in Blocks /\ BucketOf(w) \in Buckets
        /\ link' = [link EXCEPT ![p] = h] /\ ~ GlobalPush(w)
    BY <1>5, OnePoolCall DEF DeallocateLocal, GlobalPush, HasItsArrays, WithBlock, Links
  <2>2. h # p /\ \A q \in Blocks : link[q] # p
    BY <2>1, HeldAlone
  <2> HIDE DEF p, h
  <2>3. \A q \in Blocks : link'[q] # p
    BY <1>1, <2>1, <2>2
  <2>4. \A q \in Blocks : PointsTo(<<"link", q>>)' # p
    BY <1>1, <1>2, <2>1, <2>3
  <2>5. \A q \in Blocks \ {p} : link'[q] = link[q]
    BY <1>1, <2>1
  <2>6. \A q \in Blocks \ {p} : \/ PointsTo(<<"link", q>>)' = PointsTo(<<"link", q>>)
                                \/ PointsTo(<<"link", q>>)' \notin Blocks
    BY <1>3, <2>1, <2>5
  <2> QED BY <2>1, <2>4, <2>6, HeadsGrow
<1>6. CASE GlobalLink(w) /\ Links(op[w].block, global_cache[BucketOf(w)])
  <2>1. ~ GlobalPush(w) /\ op'[w].at = "push" /\ op'[w].block = op[w].block
    BY <1>6 DEF GlobalLink, GlobalPush, Goto, PoolTypeOK
  <2>2. ASSUME NEW q \in Blocks
        PROVE  \/ PointsTo(<<"link", q>>)' = PointsTo(<<"link", q>>)
               \/ PointsTo(<<"link", q>>)' \notin Blocks
    <3>1. CASE q = op[w].block
      <4>1. IsPushed(q)'
        BY <2>1, <3>1 DEF IsPushed
      <4>2. PointsTo(<<"link", q>>)' = null
        BY <1>2, <4>1
      <4> QED BY <1>1, <4>2
    <3>2. CASE q # op[w].block
      BY <1>1, <1>3, <1>6, <2>1, <3>2 DEF Links
    <3> QED BY <3>1, <3>2
  <2> QED BY <2>2, HeadsShrink
<1>7. ASSUME NEW p, Unlinks(p), ~ GlobalPush(w) PROVE ListsHaveHeads'
  <2>1. \A q \in Blocks : link'[q] = link[q] \/ link'[q] \notin Blocks
    BY <1>1, <1>7 DEF Unlinks
  <2> QED BY <1>3, <1>7, <2>1, HeadsShrink
<1>8. CASE AllocateLocal(w) /\ Unlinks(local_cache[w][BucketOf(w)])
  BY <1>7, <1>8 DEF AllocateLocal, GlobalPush
<1>9. CASE GlobalTake(w) /\ Unlinks(op[w].block)
  BY <1>7, <1>9 DEF GlobalTake, GlobalPush
<1>10. CASE link' = link /\ ~ GlobalPush(w)
  BY <1>3, <1>10, HeadsShrink
<1> QED BY <1>4, <1>5, <1>6, <1>8, <1>9, <1>10, LinkSteps

-----------------------------------------------------------------------------
(***************************************************************************)
(* The list of a head has the head, goes on with the links, and is within  *)
(* every set that does.                                                    *)
(***************************************************************************)
LEMMA ListGoesOn ==
  ASSUME NEW head
  PROVE  /\ head \in Blocks => head \in Listed(head)
         /\ \A q \in Listed(head) : link[q] \in Blocks => link[q] \in Listed(head)
<1>1. head \in Blocks => head \in Listed(head)
  BY DEF Listed, Follows
<1>2. ASSUME NEW q \in Listed(head), link[q] \in Blocks
      PROVE  link[q] \in Listed(head)
  BY <1>2 DEF Listed, Follows
<1> QED BY <1>1, <1>2

LEMMA ListIsLeast ==
  ASSUME NEW head, NEW S \in SUBSET Blocks, Follows(S, head)
  PROVE  Listed(head) \subseteq S
BY DEF Listed

LEMMA CachedIsInLists ==
  ASSUME NEW p
  PROVE  p \in Cached <=>
           \/ \E w \in Workers, b \in Buckets : p \in Listed(local_cache[w][b])
           \/ \E b \in Large : p \in Listed(global_cache[b])
<1> DEFINE Mine   == UNION {Listed(local_cache[w][b]) : w \in Workers, b \in Buckets}
           Common == UNION {Listed(global_cache[b]) : b \in Large}
<1>1. Cached = Mine \cup Common
  BY DEF Cached
<1>2. p \in Mine <=> \E w \in Workers, b \in Buckets : p \in Listed(local_cache[w][b])
  OBVIOUS
<1>3. p \in Common <=> \E b \in Large : p \in Listed(global_cache[b])
  OBVIOUS
<1> HIDE DEF Mine, Common
<1> QED BY <1>1, <1>2, <1>3

LEMMA CachedGoesOn ==
  ASSUME PoolTypeOK
  PROVE  /\ \A w \in Workers, b \in Buckets : local_cache[w][b] \in Blocks => local_cache[w][b] \in Cached
         /\ \A b \in Large : global_cache[b] \in Blocks => global_cache[b] \in Cached
         /\ \A q \in Cached : link[q] \in Blocks => link[q] \in Cached
<1>1. ASSUME NEW w \in Workers, NEW b \in Buckets, local_cache[w][b] \in Blocks
      PROVE  local_cache[w][b] \in Cached
  BY <1>1, ListGoesOn, CachedIsInLists
<1>2. ASSUME NEW b \in Large, global_cache[b] \in Blocks
      PROVE  global_cache[b] \in Cached
  BY <1>2, ListGoesOn, CachedIsInLists
<1>3. ASSUME NEW q \in Cached, link[q] \in Blocks
      PROVE  link[q] \in Cached
  <2>1. ASSUME NEW w \in Workers, NEW b \in Buckets, q \in Listed(local_cache[w][b])
        PROVE  link[q] \in Cached
    <3>1. link[q] \in Listed(local_cache[w][b])
      BY <1>3, <2>1, ListGoesOn
    <3> QED BY <3>1, CachedIsInLists
  <2>2. ASSUME NEW b \in Large, q \in Listed(global_cache[b])
        PROVE  link[q] \in Cached
    <3>1. link[q] \in Listed(global_cache[b])
      BY <1>3, <2>2, ListGoesOn
    <3> QED BY <3>1, CachedIsInLists
  <2> QED BY <1>3, <2>1, <2>2, CachedIsInLists
<1> QED BY <1>1, <1>2, <1>3

(***************************************************************************)
(* When no Array is alive and no worker in a call, every block the system  *)
(* has given out is in a list: of those in no list one would be linked to  *)
(* by none of the others, and nothing else is left to refer to it.         *)
(***************************************************************************)
LEMMA ClosingFindsAll ==
  ASSUME Sound, Close
  PROVE  \A p \in Blocks : block_size[p] # 0 => p \in Cached
<1> USE DEF Sound
<1>1. /\ ~ closed /\ \A a \in Arrays : ~ array[a].alive
      /\ \A w \in Workers : op[w] = Outside
  BY DEF Close
<1>2. null \notin Blocks /\ UserData \notin Blocks
  BY PoolAssumption
<1> DEFINE T == {p \in Blocks : block_size[p] # 0 /\ p \notin Cached}
<1> SUFFICES ASSUME T # {} PROVE FALSE
  OBVIOUS
<1>3. PICK p \in T : \A q \in T : PointsTo(Lnk(q)) # p
  BY DEF ListsHaveHeads, Lnk
<1>4. PICK r \in Referrers : PointsTo(r) = p
  BY <1>1, <1>3 DEF Given
<1>5. ASSUME NEW a \in Arrays, r = Arr(a) PROVE FALSE
  BY <1>1, <1>2, <1>3, <1>4, <1>5, Pointing DEF CallsAreApart
<1>6. ASSUME NEW w \in Workers, r = Wrk(w) PROVE FALSE
  BY <1>1, <1>2, <1>3, <1>4, <1>6, Pointing DEF Outside
<1>7. ASSUME NEW w \in Workers, NEW b \in Buckets, r = Loc(w, b) PROVE FALSE
  BY <1>3, <1>4, <1>7, Pointing, CachedGoesOn
<1>8. ASSUME NEW b \in Large, r = Glo(b) PROVE FALSE
  BY <1>3, <1>4, <1>8, Pointing, CachedGoesOn
<1>9. ASSUME NEW q \in Blocks, r = Lnk(q) PROVE FALSE
  <2>1. link[q] = p
    BY <1>2, <1>3, <1>4, <1>9, Pointing
  <2>2. block_size[q] # 0
    BY <1>1, <1>2, <1>3, <2>1 DEF Sizes
  <2>3. q \notin Cached
    BY <1>3, <2>1, CachedGoesOn
  <2>4. q \in T
    BY <2>2, <2>3
  <2> QED BY <1>3, <1>4, <1>9, <2>4
<1> QED BY <1>4, <1>5, <1>6, <1>7, <1>8, <1>9, Kinds

LEMMA CloseKeeps ==
  ASSUME Sound, Close
  PROVE  Sound'
<1> USE DEF Sound
<1>1. /\ link' = link /\ local_cache' = local_cache /\ global_cache' = global_cache
      /\ global_lock' = global_lock /\ array' = array /\ op' = op /\ closed'
      /\ closed' = TRUE
      /\ \A w \in Workers : op[w] = Outside
      /\ block_size' = [p \in Blocks |-> IF p \in Cached THEN 0 ELSE block_size[p]]
  BY DEF Close, lists
<1>2. PoolTypeOK'
  BY <1>1 DEF PoolTypeOK
<1>3. CallsAreApart'
  BY <1>1 DEF CallsAreApart, HasItsArrays
<1>4. OneHolder' /\ HeadsStay' /\ LargeAlone'
  BY <1>1 DEF OneHolder, HeadsStay, LargeAlone, Locked, BucketOf
<1>5. Marks'
  BY <1>1 DEF Marks
<1>6. \A q : IsPushed(q)' <=> IsPushed(q)
  BY <1>1 DEF IsPushed
<1>7. \A r \in Referrers : PointsTo(r)' = PointsTo(r)
  BY <1>1, <1>6 DEF PointsTo
<1>8. Single'
  BY <1>7 DEF Single
<1>9. ListsHaveHeads'
  <2>1. \A q \in Blocks : PointsTo(<<"link", q>>)' = PointsTo(<<"link", q>>)
    BY <1>7, Refer DEF Lnk
  <2> QED BY <2>1, HeadsShrink
<1>10. EverythingIsReturned'
  BY <1>1, ClosingFindsAll DEF EverythingIsReturned
<1> QED BY <1>1, <1>2, <1>3, <1>4, <1>5, <1>8, <1>9, <1>10

-----------------------------------------------------------------------------
LEMMA InitIsSound == PoolInit => Sound
<1> SUFFICES ASSUME PoolInit PROVE Sound
  OBVIOUS
<1>1. /\ null \notin Blocks /\ UserData \notin Blocks /\ UserData # null /\ null \notin Arrays
  BY PoolAssumption
<1>2. /\ block_size = [p \in Blocks |-> 0]
      /\ link = [p \in Blocks |-> UserData]
      /\ local_cache = [w \in Workers |-> [b \in Buckets |-> null]]
      /\ global_cache = [b \in Large |-> null]
      /\ global_lock = FALSE
      /\ array = [a \in Arrays |-> NoArray]
      /\ op = [w \in Workers |-> Outside]
      /\ closed = FALSE
  BY DEF PoolInit
<1>3. PoolTypeOK
  <2>1. NoArray \in ArrayType
    BY PoolAssumption DEF NoArray, ArrayType, Pointer
  <2>2. array \in [Arrays -> ArrayType] /\ op \in [Workers -> CallType]
    BY <1>2, <2>1, OutsideIsACall
  <2>3. local_cache \in [Workers -> [Buckets -> Pointer]]
    BY <1>2 DEF Pointer
  <2> QED BY <1>2, <2>2, <2>3 DEF PoolTypeOK, ArrayType, CallType, Pointer
<1>4. CallsAreApart
  BY <1>2 DEF CallsAreApart, NoArray, Outside
<1>5. OneHolder /\ HeadsStay
  BY <1>2 DEF OneHolder, HeadsStay, Locked, Outside
<1>6. LargeAlone
  BY <1>2 DEF LargeAlone, Large
<1>7. Marks /\ Sizes
  BY <1>1, <1>2 DEF Marks, Sizes, NoArray, Outside, Large
<1>8. \A r \in Referrers : PointsTo(r) = null
  <2> SUFFICES ASSUME NEW r \in Referrers PROVE PointsTo(r) = null
    OBVIOUS
  <2>1. ASSUME NEW a \in Arrays, r = Arr(a) PROVE PointsTo(r) = null
    BY <1>2, <2>1, Pointing DEF NoArray
  <2>2. ASSUME NEW w \in Workers, r = Wrk(w) PROVE PointsTo(r) = null
    BY <1>2, <2>2, Pointing DEF Outside
  <2>3. ASSUME NEW w \in Workers, NEW b \in Buckets, r = Loc(w, b) PROVE PointsTo(r) = null
    BY <1>2, <2>3, Pointing
  <2>4. ASSUME NEW b \in Large, r = Glo(b) PROVE PointsTo(r) = null
    BY <1>2, <2>4, Pointing DEF Large
  <2>5. ASSUME NEW q \in Blocks, r = Lnk(q) PROVE PointsTo(r) = null
    BY <1>1, <1>2, <2>5, Pointing
  <2> QED BY <2>1, <2>2, <2>3, <2>4, <2>5, Kinds
<1>9. Single
  BY <1>1, <1>8 DEF Single
<1>10. Given
  BY <1>2 DEF Given
<1>11. ListsHaveHeads
  <2>1. \A q \in Blocks : PointsTo(<<"link", q>>) = null
    BY <1>8, Refer DEF Lnk
  <2> QED BY <1>1, <2>1 DEF ListsHaveHeads
<1>12. EverythingIsReturned
  BY <1>2 DEF EverythingIsReturned
<1> QED BY <1>3, <1>4, <1>5, <1>6, <1>7, <1>9, <1>10, <1>11, <1>12 DEF Sound

LEMMA StepKeeps ==
  ASSUME Sound, NEW w \in Workers, PoolStep(w)
  PROVE  Sound'
<1> USE DEF Sound
<1>1. ~ closed /\ closed' = closed
  BY OneMoves
<1>2. PoolTypeOK'
  BY StepTypes
<1>3. CallsAreApart'
  BY <1>2, StepCalls
<1>4. OneHolder' /\ HeadsStay' /\ Marks' /\ LargeAlone'
  BY <1>1, <1>2, StepHolder, StepHeads, StepMarks, StepAlone
<1>5. Sizes' /\ Single' /\ Given' /\ ListsHaveHeads'
  BY <1>1, <1>2, StepSizes, StepSingle, StepGiven, StepLists
<1>6. EverythingIsReturned'
  BY <1>1 DEF EverythingIsReturned
<1> QED BY <1>2, <1>3, <1>4, <1>5, <1>6

LEMMA StutterKeeps ==
  ASSUME Sound, UNCHANGED pool_vars
  PROVE  Sound'
<1> USE DEF Sound
<1>1. /\ block_size' = block_size /\ link' = link /\ local_cache' = local_cache
      /\ global_cache' = global_cache /\ global_lock' = global_lock /\ array' = array
      /\ op' = op /\ closed' = closed
  BY DEF pool_vars
<1>2. PoolTypeOK' /\ CallsAreApart'
  BY <1>1 DEF PoolTypeOK, CallsAreApart, HasItsArrays
<1>3. OneHolder' /\ HeadsStay' /\ LargeAlone'
  BY <1>1 DEF OneHolder, HeadsStay, LargeAlone, Locked, BucketOf
<1>4. Marks' /\ (closed \/ Sizes)' /\ EverythingIsReturned'
  BY <1>1 DEF Marks, Sizes, BucketOf, EverythingIsReturned
<1>5. \A q : IsPushed(q)' <=> IsPushed(q)
  BY <1>1 DEF IsPushed
<1>6. \A r \in Referrers : PointsTo(r)' = PointsTo(r)
  BY <1>1, <1>5 DEF PointsTo
<1>7. Single' /\ (closed \/ Given)'
  BY <1>1, <1>6 DEF Single, Given
<1>8. ListsHaveHeads'
  <2>1. \A q \in Blocks : PointsTo(<<"link", q>>)' = PointsTo(<<"link", q>>)
    BY <1>6, Refer DEF Lnk
  <2> QED BY <2>1, HeadsShrink
<1> QED BY <1>2, <1>3, <1>4, <1>7, <1>8

LEMMA Soundness == PoolSpec => []Sound
<1>1. Sound /\ [PoolNext]_pool_vars => Sound'
  <2> SUFFICES ASSUME Sound, [PoolNext]_pool_vars PROVE Sound'
    OBVIOUS
  <2>1. ASSUME NEW w \in Workers, PoolStep(w) PROVE Sound'
    BY <2>1, StepKeeps
  <2>2. CASE UNCHANGED pool_vars
    BY <2>2, StutterKeeps
  <2>3. PoolNext => Close \/ Closed \/ \E w \in Workers : PoolStep(w)
    BY DEF PoolNext, PoolStep
  <2> QED BY <2>1, <2>2, <2>3, CloseKeeps DEF Closed
<1> QED BY <1>1, InitIsSound, PTL DEF PoolSpec

-----------------------------------------------------------------------------
(* What the inductive invariant is for. *)

LEMMA AtMostOne ==
  ASSUME NEW S, NEW x, S \subseteq {x}
  PROVE  Cardinality(S) = IF S = {} THEN 0 ELSE 1
<1>1. S = {} \/ S = {x}
  OBVIOUS
<1> QED BY <1>1, FS_EmptySet, FS_Singleton

LEMMA ReferredIsGiven ==
  ASSUME Sound, ~ closed, NEW r \in Referrers, PointsTo(r) \in Blocks
  PROVE  block_size[PointsTo(r)] # 0
<1> USE DEF Sound
<1> DEFINE p == PointsTo(r)
<1>1. null \notin Blocks
  BY PoolAssumption
<1>2. ASSUME NEW a \in Arrays, r = Arr(a) PROVE block_size[p] # 0
  <2>1. p = array[a].data /\ array[a].size \in 0..MaxBytes /\ array[a].size # 0
    BY <1>1, <1>2, Pointing DEF PoolTypeOK, CallsAreApart
  <2>2. array[a].size \in 1..MaxBytes
    BY <2>1, PoolAssumption
  <2> QED BY <1>1, <2>1, <2>2, BucketsFit, SizesOfBuckets DEF Sizes
<1>3. ASSUME NEW w \in Workers, r = Wrk(w) PROVE block_size[p] # 0
  <2>1. p = op[w].block /\ op[w].at # "user"
    BY <1>1, <1>3, Pointing DEF CallsAreApart, Outside
  <2> QED BY <1>1, <2>1, OnePoolCall DEF Sizes
<1>4. ASSUME NEW w \in Workers, NEW b \in Buckets, r = Loc(w, b) PROVE block_size[p] # 0
  BY <1>1, <1>4, Pointing, SizesOfBuckets DEF Sizes
<1>5. ASSUME NEW b \in Large, r = Glo(b) PROVE block_size[p] # 0
  BY <1>1, <1>5, Pointing, SizesOfBuckets DEF Sizes, Large
<1>6. ASSUME NEW q \in Blocks, r = Lnk(q) PROVE block_size[p] # 0
  <2>1. link[q] = p /\ link[q] \in Blocks /\ link[q] # UserData
    BY <1>1, <1>6, Pointing, PoolAssumption
  <2> QED BY <2>1 DEF Sizes
<1> QED BY <1>2, <1>3, <1>4, <1>5, <1>6, Kinds

LEMMA OneOwner == Sound => BlocksHaveOneOwner
<1> SUFFICES ASSUME Sound, ~ closed, NEW p \in Blocks
             PROVE  Cardinality({r \in Referrers : PointsTo(r) = p}) =
                      IF block_size[p] = 0 THEN 0 ELSE 1
  BY DEF BlocksHaveOneOwner
<1> USE DEF Sound
<1> DEFINE S == {r \in Referrers : PointsTo(r) = p}
<1>1. CASE block_size[p] = 0
  <2>1. S = {}
    BY <1>1, ReferredIsGiven
  <2> QED BY <1>1, <2>1, FS_EmptySet
<1>2. CASE block_size[p] # 0
  <2>1. PICK s \in Referrers : PointsTo(s) = p
    BY <1>2 DEF Given
  <2>2. S \subseteq {s} /\ S # {}
    BY <2>1 DEF Single
  <2> HIDE DEF S
  <2>3. Cardinality(S) = 1
    BY <2>2, AtMostOne
  <2> QED BY <1>2, <2>3 DEF S
<1> QED BY <1>1, <1>2

LEMMA KeptLinks == Sound => LinksAreKept
<1> SUFFICES ASSUME Sound, ~ closed, NEW p \in Blocks
             PROVE  link[p] = UserData <=> block_size[p] = 0 \/ InUse(p)
  BY DEF LinksAreKept
<1> USE DEF Sound
<1>1. null \notin Blocks /\ UserData \notin Blocks
  BY PoolAssumption
<1>2. ASSUME link[p] = UserData, block_size[p] # 0
      PROVE  InUse(p)
  <2>1. PICK r \in Referrers : PointsTo(r) = p
    BY <1>2 DEF Given
  <2>2. ASSUME NEW a \in Arrays, r = Arr(a) PROVE InUse(p)
    BY <2>1, <2>2, Pointing DEF InUse
  <2>3. ASSUME NEW w \in Workers, r = Wrk(w) PROVE InUse(p)
    <3>1. op[w].block = p /\ p # null
      BY <1>1, <2>1, <2>3, Pointing
    <3> QED BY <1>2, <3>1 DEF InUse, Marks
  <2>4. ASSUME NEW w \in Workers, NEW b \in Buckets, r = Loc(w, b) PROVE InUse(p)
    BY <1>1, <1>2, <2>1, <2>4, Pointing DEF Marks
  <2>5. ASSUME NEW b \in Large, r = Glo(b) PROVE InUse(p)
    BY <1>1, <1>2, <2>1, <2>5, Pointing DEF Marks
  <2>6. ASSUME NEW q \in Blocks, r = Lnk(q) PROVE InUse(p)
    <3>1. link[q] = p
      BY <1>1, <2>1, <2>6, Pointing
    <3> QED BY <1>2, <3>1 DEF Marks
  <2> QED BY <2>1, <2>2, <2>3, <2>4, <2>5, <2>6, Kinds
<1>3. ASSUME block_size[p] = 0 PROVE link[p] = UserData
  BY <1>3 DEF Sizes
<1>4. ASSUME InUse(p) PROVE link[p] = UserData
  BY <1>1, <1>4 DEF InUse, Marks
<1> QED BY <1>2, <1>3, <1>4

LEMMA ListOfOneSize ==
  ASSUME Sizes, NEW size, NEW head, head \in Blocks => block_size[head] = size
  PROVE  \A p \in Listed(head) : block_size[p] = size
<1> DEFINE S == {q \in Blocks : block_size[q] = size}
<1>1. Follows(S, head)
  BY DEF Follows, Sizes
<1> QED BY <1>1, ListIsLeast

LEMMA Fit == Sound => BlocksFit
<1> SUFFICES ASSUME Sound, ~ closed
             PROVE  /\ \A a \in Arrays :
                         array[a].data # null => block_size[array[a].data] >= array[a].size
                    /\ \A w \in Workers, b \in Buckets :
                         \A p \in Listed(local_cache[w][b]) : block_size[p] = 2 ^ b
                    /\ \A b \in Large : \A p \in Listed(global_cache[b]) : block_size[p] = 2 ^ b
  BY DEF BlocksFit
<1> USE DEF Sound
<1>1. null \notin Blocks
  BY PoolAssumption
<1>2. ASSUME NEW a \in Arrays, array[a].data # null
      PROVE  block_size[array[a].data] >= array[a].size
  <2>1. array[a].size \in 0..MaxBytes /\ array[a].size # 0
    BY <1>2 DEF PoolTypeOK, CallsAreApart
  <2>2. array[a].size \in 1..MaxBytes
    BY <2>1, PoolAssumption
  <2>3. Bucket(array[a].size) \in Buckets /\ array[a].size <= 2 ^ Bucket(array[a].size)
    BY <2>2, BucketsFit
  <2>4. 2 ^ Bucket(array[a].size) \in Nat
    BY <2>3, SizesOfBuckets
  <2>5. block_size[array[a].data] = 2 ^ Bucket(array[a].size)
    BY <1>2 DEF Sizes
  <2> QED BY <2>2, <2>3, <2>4, <2>5
<1>3. ASSUME NEW w \in Workers, NEW b \in Buckets
      PROVE  \A p \in Listed(local_cache[w][b]) : block_size[p] = 2 ^ b
  <2>1. local_cache[w][b] \in Blocks => block_size[local_cache[w][b]] = 2 ^ b
    BY <1>1 DEF Sizes
  <2> QED BY <2>1, ListOfOneSize
<1>4. ASSUME NEW b \in Large
      PROVE  \A p \in Listed(global_cache[b]) : block_size[p] = 2 ^ b
  <2>1. global_cache[b] \in Blocks => block_size[global_cache[b]] = 2 ^ b
    BY <1>1 DEF Sizes
  <2> QED BY <2>1, ListOfOneSize
<1> QED BY <1>2, <1>3, <1>4

LEMMA Shared == Sound => LargeBlocksAreShared
<1> SUFFICES ASSUME Sound, NEW w \in Workers, NEW b \in Large
             PROVE  Cardinality(Listed(local_cache[w][b])) <= 1
  BY DEF LargeBlocksAreShared
<1> DEFINE h == local_cache[w][b]
           S == {h} \cap Blocks
<1>1. h # null => link[h] = null
  BY DEF Sound, LargeAlone
<1>2. null \notin Blocks
  BY PoolAssumption
<1> HIDE DEF h
<1>3. Follows(S, h)
  BY <1>1, <1>2 DEF Follows
<1>4. Listed(h) \subseteq {h}
  BY <1>3, ListIsLeast
<1>5. Cardinality(Listed(h)) = IF Listed(h) = {} THEN 0 ELSE 1
  BY <1>4, AtMostOne
<1> QED BY <1>5 DEF h

LEMMA OneHoldsTheLock == Sound => LockHasOneHolder
<1> SUFFICES ASSUME Sound
             PROVE  Cardinality({w \in Workers : Locked(w)}) = IF global_lock THEN 1 ELSE 0
  BY DEF LockHasOneHolder
<1> DEFINE S == {w \in Workers : Locked(w)}
<1>1. OneHolder
  BY DEF Sound
<1>2. CASE global_lock
  <2>1. PICK w \in Workers : Locked(w)
    BY <1>1, <1>2 DEF OneHolder
  <2>2. S \subseteq {w} /\ S # {}
    BY <1>1, <2>1 DEF OneHolder
  <2> HIDE DEF S
  <2>3. Cardinality(S) = 1
    BY <2>2, AtMostOne
  <2> QED BY <1>2, <2>3 DEF S
<1>3. CASE ~ global_lock
  <2>1. S = {}
    BY <1>1, <1>3 DEF OneHolder
  <2> QED BY <1>3, <2>1, FS_EmptySet
<1> QED BY <1>2, <1>3

(***************************************************************************)
(* Whatever the workers, the Arrays and the blocks: each block is owned    *)
(* once, fits, and lies in lists without circles whose links nobody        *)
(* overwrites, through every interleaving of allocate and deallocate with  *)
(* the lock nobody waits for.                                              *)
(***************************************************************************)
THEOREM PoolIsRight == PoolSpec => []PoolInvariant
<1>1. Sound => PoolInvariant
  BY OneOwner, KeptLinks, Fit, Shared, OneHoldsTheLock DEF Sound, PoolInvariant
<1> QED BY <1>1, Soundness, PTL

(* When ~Pool has followed the lists, the system has every block back. *)
THEOREM PoolIsReturned == PoolSpec => []EverythingIsReturned
<1>1. Sound => EverythingIsReturned
  BY DEF Sound
<1> QED BY <1>1, Soundness, PTL

-----------------------------------------------------------------------------
(***************************************************************************)
(* BreadthFirst, for all graphs, numbers of tasks, lengths after which a   *)
(* search counts as long, and windows. Both searches are sound for the     *)
(* same reason, RoundsAreSound, said of Distance: the array of the one,    *)
(* the upper halves of the words of the other.                             *)
(***************************************************************************)

(* Hops: one more edge reaches the vertices next to those already reached.  *)

LEMMA LeastNumber ==
  ASSUME NEW S \in SUBSET Nat, S # {}
  PROVE  Min(S) \in S /\ \A q \in S : Min(S) <= q
<1>1. \E m \in S : \A d \in S : ~ <<d, m>> \in OpToRel(<, Nat)
  BY WFMin, NatLessThanWellFounded, Zenon
<1>2. PICK m \in S : \A d \in S : ~ <<d, m>> \in OpToRel(<, Nat)
  BY <1>1
<1>3. \A d \in S : m <= d
  <2>1. \A d \in S : ~ d < m
    BY <1>2 DEF OpToRel
  <2> QED BY <2>1
<1> QED BY <1>3, Zenon DEF Min

LEMMA FromZeroOn ==
  ASSUME NEW Good, 0 \in Good, \A k \in Nat : k \in Good => k + 1 \in Good
  PROVE  \A k \in Nat : k \in Good
<1> DEFINE Not == {k \in Nat : k \notin Good}
<1>1. SUFFICES ASSUME Not # {} PROVE FALSE
  OBVIOUS
<1>2. Min(Not) \in Not /\ \A q \in Not : Min(Not) <= q
  <2>1. Not \in SUBSET Nat /\ Not # {}
    BY <1>1
  <2> HIDE DEF Not
  <2> QED BY <2>1, LeastNumber
<1>3. PICK k \in Not : \A q \in Not : k <= q
  BY <1>2
<1>4. k # 0 /\ k - 1 \in Nat /\ (k - 1) + 1 = k
  BY <1>3
<1>5. k - 1 \in Good
  BY <1>3, <1>4
<1> QED BY <1>3, <1>4, <1>5

Size == Cardinality(Vertices)

LEMMA VertexConstants ==
  /\ Size \in Nat /\ Size >= 1 /\ Unreached \in Nat /\ Size < Unreached
  /\ source \in Vertices /\ IsFiniteSet(Vertices)
  /\ LongAfter \in Nat /\ LongAfter >= 2 /\ MaxStride \in Nat \ {0}
  /\ \A g \in Graphs : \A e \in g : e[1] \in Vertices /\ e[2] \in Vertices /\ e = <<e[1], e[2]>>
<1>1. Size \in Nat /\ Size # 0
  BY BreadthFirstAssumption, FS_CardinalityType, FS_EmptySet DEF Size
<1> QED BY <1>1, BreadthFirstAssumption DEF Size

AndNext(S) == S \cup {e[2] : e \in {f \in graph : f[1] \in S}}

Spreads(m, f) == f = [k \in 0..m |-> IF k = 0 THEN {source} ELSE AndNext(f[k - 1])]

LEMMA SpreadExists == \A m \in Nat : \E f : Spreads(m, f)
<1> DEFINE Good == {m \in Nat : \E f : Spreads(m, f)}
<1>1. 0 \in Good
  <2> DEFINE f == [k \in 0..0 |-> {source}]
  <2>1. f = [k \in 0..0 |-> IF k = 0 THEN {source} ELSE AndNext(f[k - 1])]
    <3>1. \A k \in 0..0 : k = 0
      OBVIOUS
    <3> QED BY <3>1
  <2> HIDE DEF f
  <2> QED BY <2>1 DEF Spreads
<1>2. ASSUME NEW m \in Nat, m \in Good PROVE m + 1 \in Good
  <2>1. PICK f : Spreads(m, f)
    BY <1>2
  <2> DEFINE g == [k \in 0..(m + 1) |-> IF k = m + 1 THEN AndNext(f[m]) ELSE f[k]]
  <2>2. \A k \in 0..(m + 1) : g[k] = IF k = 0 THEN {source} ELSE AndNext(g[k - 1])
    <3> SUFFICES ASSUME NEW k \in 0..(m + 1)
                 PROVE  g[k] = IF k = 0 THEN {source} ELSE AndNext(g[k - 1])
      OBVIOUS
    <3>1. CASE k = m + 1
      <4>1. k # 0 /\ k - 1 = m /\ m \in 0..(m + 1) /\ m # m + 1
        BY <3>1
      <4> QED BY <3>1, <4>1
    <3>2. CASE k # m + 1
      <4>1. k \in 0..m
        BY <3>2
      <4>2. f[k] = IF k = 0 THEN {source} ELSE AndNext(f[k - 1])
        BY <2>1, <4>1 DEF Spreads
      <4>3. k # 0 => k - 1 \in 0..(m + 1) /\ k - 1 # m + 1
        BY <4>1
      <4>4. g[k] = f[k] /\ (k # 0 => g[k - 1] = f[k - 1])
        BY <3>2, <4>3
      <4> HIDE DEF g
      <4> QED BY <4>2, <4>4
    <3> QED BY <3>1, <3>2
  <2>3. Spreads(m + 1, g)
    <3>1. g = [k \in 0..(m + 1) |-> g[k]]
      OBVIOUS
    <3> HIDE DEF g
    <3> QED BY <2>2, <3>1 DEF Spreads
  <2> HIDE DEF g
  <2> QED BY <2>3
<1>3. \A m \in Nat : m \in Good
  <2> HIDE DEF Good
  <2> QED BY <1>1, <1>2, FromZeroOn
<1> QED BY <1>3

(* What walks of at most k edges reach. *)
Spread == CHOOSE f : Spreads(Size, f)

LEMMA SpreadIs ==
  ASSUME graph \in Graphs
  PROVE  /\ Spread[0] = {source}
         /\ \A k \in 0..(Size - 1) : Spread[k + 1] = AndNext(Spread[k])
         /\ \A v \in Vertices : Hops[v] = Min({Unreached} \cup {k \in 0..Size : v \in Spread[k]})
<1>1. Spreads(Size, Spread)
  BY SpreadExists, VertexConstants, Zenon DEF Spread
<1>2. 0 \in 0..Size /\ \A k \in 0..(Size - 1) : k + 1 \in 0..Size /\ k + 1 # 0 /\ (k + 1) - 1 = k
  BY VertexConstants
<1>3. Spread[0] = {source}
  BY <1>1, <1>2 DEF Spreads
<1>4. \A k \in 0..(Size - 1) : Spread[k + 1] = AndNext(Spread[k])
  BY <1>1, <1>2 DEF Spreads
<1>5. \A v \in Vertices : Hops[v] = Min({Unreached} \cup {k \in 0..Size : v \in Spread[k]})
  BY DEF Hops, Spread, Spreads, AndNext, Size
<1> QED BY <1>3, <1>4, <1>5

(* The least number of edges, as the definition has it. *)
LEMMA HopsIs ==
  ASSUME graph \in Graphs, NEW v \in Vertices
  PROVE  /\ Hops[v] \in 0..Size \cup {Unreached}
         /\ Hops[v] # Unreached => v \in Spread[Hops[v]]
         /\ \A k \in 0..Size : v \in Spread[k] => Hops[v] <= k
<1> DEFINE S == {Unreached} \cup {k \in 0..Size : v \in Spread[k]}
<1>1. S \in SUBSET Nat /\ S # {}
  BY VertexConstants
<1>2. Hops[v] = Min(S)
  BY SpreadIs
<1>3. Min(S) \in S /\ \A q \in S : Min(S) <= q
  <2> HIDE DEF S
  <2> QED BY <1>1, LeastNumber
<1> QED BY <1>2, <1>3

LEMMA HopsOfSource ==
  ASSUME graph \in Graphs
  PROVE  Hops[source] = 0
<1>1. source \in Spread[0] /\ 0 \in 0..Size
  BY SpreadIs, VertexConstants
<1> QED BY <1>1, HopsIs, VertexConstants

(* A vertex is reached over one that is one edge closer. *)
LEMMA HopsBefore ==
  ASSUME graph \in Graphs, NEW v \in Vertices, Hops[v] # Unreached, v # source
  PROVE  Hops[v] > 0 /\ \E e \in graph : e[2] = v /\ Hops[e[1]] = Hops[v] - 1
<1> DEFINE k == Hops[v] - 1
<1>1. Hops[v] \in 0..Size /\ v \in Spread[Hops[v]]
  BY HopsIs
<1>2. Hops[v] # 0
  BY <1>1, SpreadIs
<1>3. k \in 0..(Size - 1) /\ k + 1 = Hops[v] /\ k \in 0..Size /\ k < Hops[v]
  BY <1>1, <1>2, VertexConstants
<1> HIDE DEF k
<1>4. v \in AndNext(Spread[k]) /\ v \notin Spread[k]
  <2>1. v \in AndNext(Spread[k])
    BY <1>1, <1>3, SpreadIs
  <2>2. v \in Spread[k] => Hops[v] <= k
    BY <1>3, HopsIs
  <2> QED BY <1>1, <1>3, <2>1, <2>2
<1>5. PICK e \in graph : e[2] = v /\ e[1] \in Spread[k]
  BY <1>4 DEF AndNext
<1>6. e[1] \in Vertices /\ Hops[e[1]] \in 0..Size /\ Hops[e[1]] <= k
  <2>1. e[1] \in Vertices
    BY VertexConstants
  <2> QED BY <1>3, <1>5, <2>1, HopsIs, VertexConstants
<1>7. ASSUME Hops[e[1]] < k PROVE FALSE
  <2> DEFINE j == Hops[e[1]]
  <2>1. j \in 0..(Size - 1) /\ j + 1 \in 0..Size /\ j + 1 < Hops[v] /\ e[1] \in Spread[j]
    BY <1>3, <1>6, <1>7, HopsIs, VertexConstants
  <2>2. v \in Spread[j + 1]
    <3>1. v \in AndNext(Spread[j])
      BY <1>5, <2>1 DEF AndNext
    <3> HIDE DEF j
    <3> QED BY <2>1, <3>1, SpreadIs
  <2>3. Hops[v] <= j + 1
    BY <2>1, <2>2, HopsIs
  <2> QED BY <1>1, <2>1, <2>3
<1>8. Hops[e[1]] = Hops[v] - 1
  BY <1>1, <1>3, <1>6, <1>7
<1> QED BY <1>1, <1>2, <1>5, <1>8

(* So there are vertices at each smaller distance, *)
LEMMA RingsBelow ==
  ASSUME graph \in Graphs, NEW v \in Vertices, Hops[v] # Unreached
  PROVE  \A k \in 0..Hops[v] : \E u \in Vertices : Hops[u] = k
<1> DEFINE h == Hops[v]
           Good == {j \in Nat : j <= h => \E u \in Vertices : Hops[u] = h - j}
<1>1. h \in 0..Size
  BY HopsIs
<1>2. 0 \in Good
  BY <1>1, VertexConstants
<1>3. ASSUME NEW j \in Nat, j \in Good PROVE j + 1 \in Good
  <2> SUFFICES ASSUME j + 1 <= h PROVE \E u \in Vertices : Hops[u] = h - (j + 1)
    OBVIOUS
  <2>1. PICK u \in Vertices : Hops[u] = h - j
    BY <1>1, <1>3, VertexConstants
  <2>2. Hops[u] > 0 /\ h - (j + 1) = Hops[u] - 1 /\ Hops[u] # Unreached
    BY <1>1, <2>1, VertexConstants
  <2>3. u # source
    BY <2>2, HopsOfSource
  <2> HIDE DEF h
  <2>4. PICK e \in graph : Hops[e[1]] = Hops[u] - 1
    BY <2>2, <2>3, HopsBefore
  <2> QED BY <2>2, <2>4, VertexConstants
<1>4. \A j \in Nat : j \in Good
  <2> HIDE DEF Good
  <2> QED BY <1>2, <1>3, FromZeroOn
<1> SUFFICES ASSUME NEW k \in 0..h PROVE \E u \in Vertices : Hops[u] = k
  OBVIOUS
<1>5. h - k \in Nat /\ h - k <= h /\ h - (h - k) = k
  BY <1>1, VertexConstants
<1> HIDE DEF h
<1> QED BY <1>4, <1>5

(* and more vertices than edges to any of them. *)
LEMMA RingsCount ==
  ASSUME graph \in Graphs, NEW v \in Vertices, Hops[v] # Unreached,
         NEW S \in SUBSET Vertices, \A u \in Vertices : Hops[u] <= Hops[v] => u \in S
  PROVE  Hops[v] < Cardinality(S)
<1> DEFINE h == Hops[v]
           f == [k \in 0..h |-> CHOOSE u \in Vertices : Hops[u] = k]
<1>1. h \in Nat
  BY HopsIs, VertexConstants
<1>2. \A k \in 0..h : f[k] \in Vertices /\ Hops[f[k]] = k
  <2> SUFFICES ASSUME NEW k \in 0..h PROVE f[k] \in Vertices /\ Hops[f[k]] = k
    OBVIOUS
  <2>1. f[k] = CHOOSE u \in Vertices : Hops[u] = k
    OBVIOUS
  <2>2. \E u \in Vertices : Hops[u] = k
    BY RingsBelow
  <2> HIDE DEF f, h
  <2> QED BY <2>1, <2>2, Zenon
<1>3. \A k \in 0..h : f[k] \in S
  <2> SUFFICES ASSUME NEW k \in 0..h PROVE f[k] \in S
    OBVIOUS
  <2>1. f[k] \in Vertices /\ Hops[f[k]] = k
    BY <1>2
  <2>2. k <= h
    OBVIOUS
  <2> HIDE DEF f
  <2> QED BY <2>1, <2>2
<1>4. f \in Injection(0..h, S)
  <2>1. f = [k \in 0..h |-> f[k]]
    OBVIOUS
  <2> HIDE DEF f, h
  <2>2. f \in [0..h -> S]
    BY <1>3, <2>1
  <2>3. \A a, b \in DOMAIN f : f[a] = f[b] => a = b
    BY <1>2, <2>2
  <2> QED BY <2>2, <2>3 DEF Injection, IsInjective
<1>5. IsFiniteSet(0..h) /\ Cardinality(0..h) = h + 1
  <2>1. /\ IsFiniteSet(0..h)
        /\ Cardinality(0..h) = IF 0 > h THEN 0 ELSE h - 0 + 1
    BY <1>1, FS_Interval
  <2> QED BY <1>1, <2>1
<1>6. IsFiniteSet(S) /\ Cardinality(S) \in Nat
  BY VertexConstants, FS_Subset, FS_CardinalityType
<1>7. Cardinality(0..h) <= Cardinality(S)
  <2> HIDE DEF f, h
  <2> QED BY <1>4, <1>5, <1>6, FS_Injection
<1> QED BY <1>1, <1>5, <1>6, <1>7

LEMMA HopsBound ==
  ASSUME graph \in Graphs, NEW v \in Vertices, Hops[v] # Unreached
  PROVE  Hops[v] \in 0..(Size - 1)
<1>1. Hops[v] < Size
  BY RingsCount DEF Size
<1> QED BY <1>1, HopsIs, VertexConstants

(* An edge leads at most one further. *)
LEMMA HopsOver ==
  ASSUME graph \in Graphs, NEW e \in graph, Hops[e[1]] # Unreached
  PROVE  Hops[e[2]] # Unreached /\ Hops[e[2]] <= Hops[e[1]] + 1
<1> DEFINE k == Hops[e[1]]
<1>1. e[1] \in Vertices /\ e[2] \in Vertices
  BY VertexConstants
<1>2. k \in 0..(Size - 1) /\ k + 1 \in 0..Size /\ e[1] \in Spread[k]
  BY <1>1, HopsBound, HopsIs, VertexConstants
<1>3. e[2] \in Spread[k + 1]
  <2>1. e[2] \in AndNext(Spread[k])
    BY <1>2 DEF AndNext
  <2> HIDE DEF k
  <2> QED BY <1>2, <2>1, SpreadIs
<1>4. Hops[e[2]] <= k + 1 /\ Hops[e[2]] \in 0..Size \cup {Unreached}
  BY <1>1, <1>2, <1>3, HopsIs
<1> QED BY <1>2, <1>4, VertexConstants

-----------------------------------------------------------------------------
(* The distances of either search. *)
Distance == IF program = "search" THEN dist ELSE [v \in Vertices |-> Dist(v)]

Reached == {v \in Vertices : Distance[v] # Unreached}
Ring(r) == {v \in Vertices : Hops[v] = r /\ r # Unreached}
Beyond(r) == {v \in Vertices : Hops[v] > r}
Claims == {job[t].s : t \in {u \in Tasks : job[u].at = "claim"}}

(* The level that mode 0 goes out from. *)
Level == IF program = "search" THEN round ELSE round - 1

Settled == IF mode >= 5 THEN round ELSE round - 1
Exact(r) == \A v \in Vertices : Distance[v] = IF Hops[v] <= r THEN Hops[v] ELSE Unreached

AtRest == frontier = {} /\ work = {} /\ Resting /\ \A v \in Vertices : pending[v] = 0

DistancesFit ==
  /\ Distance \in [Vertices -> 0..Size \cup {Unreached}]
  /\ \A v \in Vertices : Distance[v] >= Hops[v]

TopIs ==
  phase = "top" =>
    /\ AtRest /\ Exact(Settled)
    /\ mode = 0 => next_frontier = Ring(Level) /\ active = Beyond(Level) /\ Level \in Nat
    /\ mode = 1 => /\ next_frontier = {} /\ active = Beyond(round - 1)
                   /\ round \in 1..Size
    /\ mode >= 5 => /\ {v \in next_frontier : Distance[v] = round} = Ring(round)
                    /\ next_frontier \subseteq Reached /\ round >= 1

EndIs == phase = "ended" => AtRest /\ Distance = Hops

Begun == Ring(Level) \ frontier
Claimed == next_frontier \cup Claims

(* Vertices get their distance when they are taken, or when they are offered. *)
Written ==
  IF program = "search" THEN {v \in Vertices : Hops[v] < Level} \cup Begun
                        ELSE {v \in Vertices : Hops[v] <= Level} \cup Claimed

PushDistances == \A v \in Vertices : Distance[v] = IF v \in Written THEN Hops[v] ELSE Unreached

PushFacts ==
  /\ mode = 0 /\ Level \in 0..(Size - 1)
  /\ \A v \in Vertices : pending[v] = 0
  /\ \A t \in Tasks : job[t].at \in {"idle", "claim"}
  /\ frontier \subseteq Ring(Level)
  /\ \A e \in work : e[1] \in Begun
  /\ Claimed \subseteq Ring(Level + 1)
  /\ active = Beyond(Level) \ next_frontier
  /\ \A e \in graph : e[1] \in Begun /\ e[2] \in Ring(Level + 1) => e \in work \/ e[2] \in Claimed
  /\ PushDistances

PushIs == phase = "push" => PushFacts

(* The least distance that job t has read and may still read. *)
OffersBelow(t, c) == job[t].value < c \/ \E e \in job[t].edges : Distance[e[1]] < c

IsPulling(t) ==
  /\ job[t].s \in Reached \ {source} /\ Distance[job[t].s] < WindowEnd
  /\ job[t].edges \subseteq InEdges(job[t].s)
  /\ OffersBelow(t, WindowEnd - 1) /\ OffersBelow(t, Cardinality(Reached) - 1)
  /\ job[t].value # Unreached =>
       \E e \in graph : e[2] = job[t].s /\ Distance[e[1]] <= job[t].value

IsPushing(t) ==
  /\ job[t].s \in Reached \ {source} /\ Distance[job[t].s] <= job[t].value
  /\ job[t].edges \subseteq OutEdges(job[t].s)
  /\ job[t].value < WindowEnd /\ job[t].value < Cardinality(Reached)

(* Somebody is still to push over e from the distance its source has. *)
Owed(e) ==
  LET s == e[1]
  IN  \/ s \in frontier /\ Distance[s] = round
      \/ pending[s] > 0
      \/ \E t \in Tasks : job[t].at = "pull" /\ job[t].s = s /\ OffersBelow(t, Distance[s])
      \/ \E t \in Tasks : job[t].at = "push" /\ e \in job[t].edges /\ job[t].value <= Distance[s]

(* Up to the round all is settled; whatever is at the end of the window is *)
(* in the next frontier, and there are enough vertices for each distance.  *)
NearIsExact == \A v \in Vertices : Hops[v] <= round => Distance[v] = Hops[v]

InWindow ==
  \A v \in Reached : /\ Distance[v] <= WindowEnd
                     /\ Distance[v] = WindowEnd => v \in next_frontier
                     /\ Distance[v] < Cardinality(Reached)

HasNearer == \A v \in Reached \ {source} : \E e \in graph : e[2] = v /\ Distance[e[1]] < Distance[v]

PendingFit ==
  \A v \in Vertices : pending[v] > 0 => v \in Reached \ {source} /\ Distance[v] < WindowEnd

JobsFit ==
  \A t \in Tasks : /\ job[t].at # "claim"
                   /\ job[t].at = "pull" => IsPulling(t)
                   /\ job[t].at = "push" => IsPushing(t)

AllOwed ==
  \A e \in graph :
    e[1] \in Reached /\ Distance[e[1]] \in round..(WindowEnd - 1) =>
      Owed(e) \/ Distance[e[2]] <= Distance[e[1]] + 1

WindowFacts ==
  /\ mode >= 5 /\ round >= 1 /\ work = {} /\ frontier \cup next_frontier \subseteq Reached
  /\ NearIsExact /\ InWindow /\ HasNearer /\ PendingFit /\ JobsFit /\ AllOwed

WindowIs == phase = "search" => WindowFacts

RoundsAreSound ==
  ControlTypeOK /\ DistancesFit /\ TopIs /\ PushIs /\ WindowIs /\ EndIs

-----------------------------------------------------------------------------
(* Types. *)
Traversals ==
  [at : {"pull", "push"}, s : Vertices, edges : SUBSET graph, value : 0..Unreached,
   parent : Vertices \cup {Unreached}]

LEMMA JobFacts ==
  ASSUME ControlTypeOK, NEW t \in Tasks
  PROVE  /\ job[t].at \in {"idle", "claim", "pull", "push"}
         /\ job[t].at = "idle" => job[t] = NoJob
         /\ job[t].at = "claim" => job[t].s \in Vertices
         /\ job[t].at \in {"pull", "push"} => job[t] \in Traversals
         /\ NoJob.at = "idle"
<1>1. job[t] \in {NoJob} \cup [at : {"claim"}, s : Vertices] \cup Traversals
  BY DEF ControlTypeOK, Jobs, Traversals
<1>2. NoJob.at = "idle"
  BY DEF NoJob
<1>3. CASE job[t] = NoJob
  BY <1>2, <1>3
<1>4. CASE job[t] \in [at : {"claim"}, s : Vertices]
  BY <1>2, <1>4
<1>5. CASE job[t] \in Traversals
  BY <1>2, <1>5 DEF Traversals
<1> QED BY <1>1, <1>3, <1>4, <1>5

(* A step that gives task t the job c. *)
LEMMA JobChanges ==
  ASSUME ControlTypeOK, graph' = graph, NEW t \in Tasks, NEW c \in Jobs,
         job' = [job EXCEPT ![t] = c]
  PROVE  /\ job' \in [Tasks -> Jobs'] /\ job'[t] = c
         /\ \A u \in Tasks : u # t => job'[u] = job[u]
<1>1. Jobs' = Jobs
  BY DEF Jobs, NoJob
<1> QED BY <1>1 DEF ControlTypeOK

LEMMA ClaimingIs ==
  ASSUME NEW v \in Vertices
  PROVE  [at |-> "claim", s |-> v] \in Jobs /\ NoJob \in Jobs
BY DEF Jobs

LEMMA TraversalsAreJobs == Traversals \subseteq Jobs
BY DEF Traversals, Jobs

LEMMA EdgesAre ==
  ASSUME ControlTypeOK
  PROVE  /\ graph \in Graphs
         /\ \A e \in graph : e[1] \in Vertices /\ e[2] \in Vertices /\ e = <<e[1], e[2]>>
         /\ \A s \in Vertices : InEdges(s) \subseteq graph /\ OutEdges(s) \subseteq graph
BY VertexConstants DEF ControlTypeOK, InEdges, OutEdges

LEMMA PopTopDoes ==
  ASSUME ControlTypeOK, NEW t \in Tasks, NEW s \in Vertices, PopTop(t, s)
  PROVE  /\ job' \in [Tasks -> Jobs'] /\ pending' \in [Vertices -> Nat]
         /\ job'[t].at = "pull" /\ job'[t].s = s /\ job'[t].edges = InEdges(s)
         /\ job'[t].value = Unreached /\ job'[t].parent = Unreached
         /\ \A u \in Tasks : u # t => job'[u] = job[u]
         /\ \A v \in Vertices : v # s => pending'[v] = pending[v]
         /\ pending[s] > 0 /\ job[t].at = "idle"
<1> DEFINE c == [at |-> "pull", s |-> s, edges |-> InEdges(s), value |-> Unreached,
                 parent |-> Unreached]
<1>1. c \in Traversals
  BY EdgesAre, VertexConstants DEF Traversals
<1>2. c \in Jobs
  BY <1>1, TraversalsAreJobs
<1>3. job' = [job EXCEPT ![t] = c] /\ graph' = graph
  BY DEF PopTop
<1>4. /\ job' \in [Tasks -> Jobs'] /\ job'[t] = c
      /\ \A u \in Tasks : u # t => job'[u] = job[u]
  <2> HIDE DEF c
  <2> QED BY <1>2, <1>3, JobChanges
<1>5. pending \in [Vertices -> Nat] /\ pending' = [pending EXCEPT ![s] = @ - 1] /\ pending[s] > 0
  BY DEF PopTop, ControlTypeOK
<1>6. job[t].at = "idle"
  BY JobFacts DEF PopTop
<1> QED BY <1>4, <1>5, <1>6

(* A record with several of its fields changed, one after the other. *)
LEMMA RecordAsRead ==
  ASSUME NEW r \in Traversals, NEW es, NEW val, NEW par
  PROVE  [r EXCEPT !.edges = es, !.value = val, !.parent = par] =
           [at |-> r.at, s |-> r.s, edges |-> es, value |-> val, parent |-> par]
<1> DEFINE r1 == [at |-> r.at, s |-> r.s, edges |-> es, value |-> r.value, parent |-> r.parent]
           r2 == [at |-> r.at, s |-> r.s, edges |-> es, value |-> val, parent |-> r.parent]
<1>1. [r EXCEPT !.edges = es] = r1
  BY DEF Traversals
<1>2. [r1 EXCEPT !.value = val] = r2
  OBVIOUS
<1>3. [r2 EXCEPT !.parent = par] =
        [at |-> r.at, s |-> r.s, edges |-> es, value |-> val, parent |-> par]
  OBVIOUS
<1>4. [r EXCEPT !.edges = es, !.value = val, !.parent = par] =
        [[[r EXCEPT !.edges = es] EXCEPT !.value = val] EXCEPT !.parent = par]
  BY DEF Traversals
<1> HIDE DEF r1, r2
<1> QED BY <1>1, <1>2, <1>3, <1>4

LEMMA RecordAsLowered ==
  ASSUME NEW r \in Traversals, NEW kind, NEW es, NEW val
  PROVE  [r EXCEPT !.at = kind, !.edges = es, !.value = val] =
           [at |-> kind, s |-> r.s, edges |-> es, value |-> val, parent |-> r.parent]
<1> DEFINE r1 == [at |-> kind, s |-> r.s, edges |-> r.edges, value |-> r.value, parent |-> r.parent]
           r2 == [at |-> kind, s |-> r.s, edges |-> es, value |-> r.value, parent |-> r.parent]
<1>1. [r EXCEPT !.at = kind] = r1
  BY DEF Traversals
<1>2. [r1 EXCEPT !.edges = es] = r2
  OBVIOUS
<1>3. [r2 EXCEPT !.value = val] =
        [at |-> kind, s |-> r.s, edges |-> es, value |-> val, parent |-> r.parent]
  OBVIOUS
<1>4. [r EXCEPT !.at = kind, !.edges = es, !.value = val] =
        [[[r EXCEPT !.at = kind] EXCEPT !.edges = es] EXCEPT !.value = val]
  BY DEF Traversals
<1> HIDE DEF r1, r2
<1> QED BY <1>1, <1>2, <1>3, <1>4

LEMMA PullDoes ==
  ASSUME ControlTypeOK, NEW t \in Tasks, NEW e, NEW val \in 0..Unreached,
         NEW par \in Vertices \cup {Unreached}, Pull(t, e, val, par)
  PROVE  /\ job' \in [Tasks -> Jobs']
         /\ job'[t].at = "pull" /\ job'[t].s = job[t].s /\ job'[t].edges = job[t].edges \ {e}
         /\ job'[t].value = val /\ job'[t].parent = par
         /\ \A u \in Tasks : u # t => job'[u] = job[u]
         /\ job[t].at = "pull" /\ e \in job[t].edges /\ job[t] \in Traversals
<1>1. job[t].at = "pull" /\ e \in job[t].edges /\ job[t] \in Traversals
  BY JobFacts DEF Pull
<1> DEFINE c == [at |-> "pull", s |-> job[t].s, edges |-> job[t].edges \ {e}, value |-> val,
                 parent |-> par]
<1>2. c \in Traversals
  BY <1>1 DEF Traversals
<1>3. c \in Jobs
  BY <1>2, TraversalsAreJobs
<1>4. job' = [job EXCEPT ![t] = c] /\ graph' = graph
  <2>1. [job[t] EXCEPT !.edges = job[t].edges \ {e}, !.value = val, !.parent = par] = c
    <3>1. PICK r \in Traversals : r = job[t]
      BY <1>1
    <3>2. ASSUME NEW es
          PROVE  [r EXCEPT !.edges = es, !.value = val, !.parent = par] =
                   [at |-> r.at, s |-> r.s, edges |-> es, value |-> val, parent |-> par]
      BY RecordAsRead
    <3> QED BY <1>1, <3>1, <3>2
  <2>2. job' = [job EXCEPT ![t] = [job[t] EXCEPT !.edges = job[t].edges \ {e}, !.value = val,
                                                 !.parent = par]]
    BY DEF Pull, ControlTypeOK
  <2> QED BY <2>1, <2>2 DEF Pull
<1>5. /\ job' \in [Tasks -> Jobs'] /\ job'[t] = c
      /\ \A u \in Tasks : u # t => job'[u] = job[u]
  <2> HIDE DEF c
  <2> QED BY <1>3, <1>4, JobChanges
<1> QED BY <1>1, <1>5

LEMMA LowerDoes ==
  ASSUME ControlTypeOK, NEW t \in Tasks, Lower(t)
  PROVE  /\ job' \in [Tasks -> Jobs']
         /\ job'[t].at = "push" /\ job'[t].s = job[t].s /\ job'[t].edges = OutEdges(job[t].s)
         /\ job'[t].value = DistFrom(job[t].value)
         /\ \A u \in Tasks : u # t => job'[u] = job[u]
         /\ job[t].at = "pull" /\ job[t].edges = {} /\ job[t] \in Traversals
<1>1. job[t].at = "pull" /\ job[t].edges = {} /\ job[t] \in Traversals
  BY JobFacts DEF Lower
<1> DEFINE c == [at |-> "push", s |-> job[t].s, edges |-> OutEdges(job[t].s),
                 value |-> DistFrom(job[t].value), parent |-> job[t].parent]
<1>2. c \in Traversals
  <2>1. job[t].s \in Vertices /\ job[t].value \in Nat /\ job[t].parent \in Vertices \cup {Unreached}
    BY <1>1, VertexConstants DEF Traversals
  <2>2. DistFrom(job[t].value) \in 0..Unreached
    BY <2>1, VertexConstants DEF DistFrom
  <2>3. OutEdges(job[t].s) \subseteq graph
    BY <2>1, EdgesAre
  <2> QED BY <2>1, <2>2, <2>3 DEF Traversals
<1>3. c \in Jobs
  BY <1>2, TraversalsAreJobs
<1>4. job' = [job EXCEPT ![t] = c] /\ graph' = graph
  <2>1. [job[t] EXCEPT !.at = "push", !.edges = OutEdges(job[t].s),
                       !.value = DistFrom(job[t].value)] = c
    <3>1. PICK r \in Traversals : r = job[t]
      BY <1>1
    <3>2. ASSUME NEW es, NEW val
          PROVE  [r EXCEPT !.at = "push", !.edges = es, !.value = val] =
                   [at |-> "push", s |-> r.s, edges |-> es, value |-> val,
                    parent |-> r.parent]
      BY RecordAsLowered
    <3> QED BY <1>1, <3>1, <3>2
  <2>2. job' = [job EXCEPT ![t] = [job[t] EXCEPT !.at = "push", !.edges = OutEdges(job[t].s),
                                                 !.value = DistFrom(job[t].value)]]
    BY DEF Lower, ControlTypeOK
  <2> QED BY <2>1, <2>2 DEF Lower
<1>5. /\ job' \in [Tasks -> Jobs'] /\ job'[t] = c
      /\ \A u \in Tasks : u # t => job'[u] = job[u]
  <2> HIDE DEF c
  <2> QED BY <1>3, <1>4, JobChanges
<1> QED BY <1>1, <1>5

LEMMA PushDoes ==
  ASSUME ControlTypeOK, NEW t \in Tasks, NEW e, NEW lowered, Push(t, e, lowered)
  PROVE  /\ job' \in [Tasks -> Jobs'] /\ pending' \in [Vertices -> Nat]
         /\ job'[t].at = "push" /\ job'[t].s = job[t].s /\ job'[t].edges = job[t].edges \ {e}
         /\ job'[t].value = job[t].value
         /\ \A u \in Tasks : u # t => job'[u] = job[u]
         /\ job[t].at = "push" /\ e \in job[t].edges /\ job[t] \in Traversals
         /\ next_frontier \subseteq next_frontier' /\ next_frontier' \subseteq next_frontier \cup {e[2]}
         /\ \A v \in Vertices : pending[v] <= pending'[v]
         /\ \A v \in Vertices : v # e[2] => pending'[v] = pending[v]
         /\ lowered /\ job[t].value + 1 = WindowEnd => e[2] \in next_frontier' /\ pending' = pending
         /\ lowered /\ job[t].value + 1 # WindowEnd => pending'[e[2]] > 0 /\ next_frontier' = next_frontier
         /\ ~ lowered => pending' = pending /\ next_frontier' = next_frontier
<1>1. job[t].at = "push" /\ e \in job[t].edges /\ job[t] \in Traversals
  BY JobFacts DEF Push
<1> DEFINE c == [at |-> "push", s |-> job[t].s, edges |-> job[t].edges \ {e},
                 value |-> job[t].value, parent |-> job[t].parent]
<1>2. c \in Traversals
  BY <1>1 DEF Traversals
<1>3. c \in Jobs
  BY <1>2, TraversalsAreJobs
<1>4. job' = [job EXCEPT ![t] = c] /\ graph' = graph
  <2>1. [job[t] EXCEPT !.edges = job[t].edges \ {e}] = c
    BY <1>1 DEF Traversals
  <2>2. job' = [job EXCEPT ![t] = [job[t] EXCEPT !.edges = job[t].edges \ {e}]]
    BY DEF Push, ControlTypeOK
  <2> QED BY <2>1, <2>2 DEF Push
<1>5. /\ job' \in [Tasks -> Jobs'] /\ job'[t] = c
      /\ \A u \in Tasks : u # t => job'[u] = job[u]
  <2> HIDE DEF c
  <2> QED BY <1>3, <1>4, JobChanges
<1>6. e[2] \in Vertices /\ pending \in [Vertices -> Nat]
  BY <1>1, EdgesAre DEF Traversals, ControlTypeOK
<1>7. /\ pending' = IF lowered /\ ~ (job[t].value + 1 = WindowEnd)
                      THEN [pending EXCEPT ![e[2]] = @ + 1] ELSE pending
      /\ next_frontier' = IF lowered /\ job[t].value + 1 = WindowEnd
                            THEN next_frontier \cup {e[2]} ELSE next_frontier
  BY DEF Push
<1>8. CASE lowered /\ ~ (job[t].value + 1 = WindowEnd)
  <2>1. pending' = [pending EXCEPT ![e[2]] = @ + 1] /\ next_frontier' = next_frontier
    BY <1>7, <1>8
  <2>2. pending[e[2]] \in Nat /\ pending'[e[2]] = pending[e[2]] + 1
    BY <1>6, <2>1
  <2>3. pending' \in [Vertices -> Nat] /\ \A v \in Vertices : pending[v] <= pending'[v]
    BY <1>6, <2>1
  <2> QED BY <1>1, <1>5, <1>6, <1>8, <2>1, <2>2, <2>3
<1>9. CASE lowered /\ job[t].value + 1 = WindowEnd
  <2>1. pending' = pending /\ next_frontier' = next_frontier \cup {e[2]}
    BY <1>7, <1>9
  <2>2. \A v \in Vertices : pending[v] <= pending'[v]
    BY <1>6, <2>1
  <2> QED BY <1>1, <1>5, <1>6, <1>9, <2>1, <2>2
<1>10. CASE ~ lowered
  <2>1. pending' = pending /\ next_frontier' = next_frontier
    BY <1>7, <1>10
  <2>2. \A v \in Vertices : pending[v] <= pending'[v]
    BY <1>6, <2>1
  <2> QED BY <1>1, <1>5, <1>6, <1>10, <2>1, <2>2
<1> QED BY <1>8, <1>9, <1>10

(* A task that is done with its job. *)
LEMMA NoJobLeft ==
  ASSUME ControlTypeOK, graph' = graph, NEW t \in Tasks, job' = [job EXCEPT ![t] = NoJob]
  PROVE  /\ job' \in [Tasks -> Jobs'] /\ job'[t].at = "idle"
         /\ \A u \in Tasks : u # t => job'[u] = job[u]
<1>1. NoJob \in Jobs /\ NoJob.at = "idle"
  BY DEF Jobs, NoJob
<1> QED BY <1>1, JobChanges

-----------------------------------------------------------------------------
(* Rings. *)
LEMMA HopsStay ==
  ASSUME graph' = graph
  PROVE  /\ Hops' = Hops
         /\ \A r : Ring(r)' = Ring(r) /\ Beyond(r)' = Beyond(r)
<1>1. Hops' = Hops
  BY DEF Hops
<1> QED BY <1>1 DEF Ring, Beyond

LEMMA HopsAre ==
  ASSUME graph \in Graphs
  PROVE  /\ Hops = [v \in Vertices |-> Hops[v]]
         /\ \A v \in Vertices : Hops[v] \in 0..(Size - 1) \cup {Unreached}
         /\ \A v \in Vertices : Hops[v] = 0 <=> v = source
<1>1. Hops = [v \in Vertices |-> Hops[v]]
  BY DEF Hops
<1>2. \A v \in Vertices : Hops[v] \in 0..(Size - 1) \cup {Unreached}
  BY HopsBound
<1>3. \A v \in Vertices : Hops[v] = 0 => v = source
  <2> SUFFICES ASSUME NEW v \in Vertices, Hops[v] = 0, v # source PROVE FALSE
    OBVIOUS
  <2>1. Hops[v] # Unreached
    BY VertexConstants
  <2>2. Hops[v] > 0
    BY <2>1, HopsBefore
  <2> QED BY <2>2
<1> QED BY <1>1, <1>2, <1>3, HopsOfSource

LEMMA EmptyRing ==
  ASSUME graph \in Graphs, NEW r \in Nat, Ring(r) = {}, NEW v \in Vertices, Hops[v] >= r
  PROVE  Hops[v] = Unreached
<1> SUFFICES ASSUME Hops[v] # Unreached PROVE FALSE
  OBVIOUS
<1>1. Hops[v] \in 0..(Size - 1) /\ r \in 0..Hops[v] /\ r # Unreached
  BY HopsAre, VertexConstants
<1>2. PICK u \in Vertices : Hops[u] = r
  BY <1>1, RingsBelow
<1> QED BY <1>1, <1>2 DEF Ring

LEMMA SomeRing ==
  ASSUME graph \in Graphs, NEW r, Ring(r) # {}
  PROVE  r \in 0..(Size - 1)
BY HopsAre DEF Ring

(* A ring is found over the edges from the one before. *)
LEMMA RingBefore ==
  ASSUME graph \in Graphs, NEW r \in Nat, NEW v \in Ring(r + 1)
  PROVE  \E e \in graph : e[2] = v /\ e[1] \in Ring(r)
<1>1. v \in Vertices /\ Hops[v] = r + 1 /\ r + 1 # Unreached /\ r + 1 \in 0..(Size - 1)
  BY SomeRing DEF Ring
<1>2. v # source
  BY <1>1, HopsOfSource
<1>3. PICK e \in graph : e[2] = v /\ Hops[e[1]] = Hops[v] - 1
  BY <1>1, <1>2, HopsBefore
<1>4. e[1] \in Vertices /\ Hops[e[1]] = r /\ r # Unreached
  BY <1>1, <1>3, VertexConstants
<1> QED BY <1>3, <1>4 DEF Ring

-----------------------------------------------------------------------------
(* How either search begins. *)
LEMMA AllIdle ==
  ASSUME Resting, NEW t \in Tasks
  PROVE  job[t].at = "idle" /\ Claims = {}
BY DEF Resting, NoJob, Claims

LEMMA BeginIsSound ==
  ASSUME NEW name, NEW first \in Nat, Begin(name, first), Level = 0, Exact(round - 1), DistancesFit
  PROVE  RoundsAreSound
<1>1. graph \in Graphs
  BY DEF Begin
<1>2. ControlTypeOK
  <2>1. job \in [Tasks -> Jobs]
    BY DEF Begin, Jobs
  <2>2. active \subseteq Vertices \ {source} /\ next_frontier \subseteq Vertices /\ frontier = {}
    BY VertexConstants DEF Begin
  <2>3. pending \in [Vertices -> Nat] /\ work = {} /\ phase = "top" /\ mode = 0
    BY DEF Begin
  <2>4. stride \in 1..MaxStride /\ round \in Nat
    BY VertexConstants DEF Begin
  <2> QED BY <1>1, <2>1, <2>2, <2>3, <2>4 DEF ControlTypeOK
<1>3. AtRest
  BY DEF AtRest, Begin, Resting
<1>4. next_frontier = Ring(0) /\ active = Beyond(0)
  <2>1. 0 # Unreached /\ next_frontier = {source} /\ active = Vertices \ {source}
    BY VertexConstants DEF Begin
  <2>2. \A v \in Vertices : Hops[v] > 0 <=> v # source
    BY <1>1, HopsAre, VertexConstants
  <2> QED BY <1>1, <2>1, <2>2, HopsAre, VertexConstants DEF Ring, Beyond
<1>5. phase = "top" /\ mode = 0 /\ Settled = round - 1
  BY DEF Begin, Settled
<1>6. TopIs
  BY <1>3, <1>4, <1>5 DEF TopIs
<1> QED BY <1>2, <1>5, <1>6 DEF RoundsAreSound, PushIs, WindowIs, EndIs

LEMMA SearchBeginsSound == SearchInit => RoundsAreSound
<1> SUFFICES ASSUME SearchInit PROVE RoundsAreSound
  OBVIOUS
<1>1. program = "search" /\ round = 0 /\ graph \in Graphs /\ Begin("search", 0)
  BY DEF SearchInit, Begin
<1>2. Distance = [v \in Vertices |-> Unreached] /\ Level = 0
  BY <1>1 DEF SearchInit, Distance, Level
<1>3. Exact(round - 1)
  BY <1>1, <1>2, HopsAre, VertexConstants DEF Exact
<1>4. DistancesFit
  BY <1>1, <1>2, HopsAre, VertexConstants DEF DistancesFit
<1> QED BY <1>1, <1>2, <1>3, <1>4, BeginIsSound

LEMMA TreeBeginsSound == TreeInit => RoundsAreSound
<1> SUFFICES ASSUME TreeInit PROVE RoundsAreSound
  OBVIOUS
<1>1. program = "tree" /\ round = 1 /\ graph \in Graphs /\ Begin("tree", 1)
  BY DEF TreeInit, Begin
<1>2. Distance = [v \in Vertices |-> IF v = source THEN 0 ELSE Unreached] /\ Level = 0
  BY <1>1 DEF TreeInit, Distance, Level, Dist, Blank
<1>3. Exact(round - 1)
  <2> SUFFICES ASSUME NEW v \in Vertices
               PROVE  Distance[v] = IF Hops[v] <= 0 THEN Hops[v] ELSE Unreached
    BY <1>1 DEF Exact
  <2>1. Hops[v] <= 0 <=> v = source
    BY <1>1, HopsAre, VertexConstants
  <2> QED BY <1>1, <1>2, <2>1, HopsOfSource
<1>4. DistancesFit
  <2>1. \A v \in Vertices : Distance[v] >= Hops[v]
    BY <1>1, <1>2, HopsAre, VertexConstants
  <2> QED BY <1>2, <2>1, VertexConstants DEF DistancesFit
<1> QED BY <1>1, <1>2, <1>3, <1>4, BeginIsSound

-----------------------------------------------------------------------------
(* Steps at the top of the loop; all is at rest there. *)
LEMMA JobsStay ==
  ASSUME ControlTypeOK, graph' = graph, job' = job
  PROVE  job' \in [Tasks -> Jobs'] /\ graph' \in Graphs /\ work \in SUBSET graph'
BY DEF ControlTypeOK, Jobs, NoJob

LEMMA FitStays ==
  ASSUME DistancesFit, graph' = graph, Distance' = Distance
  PROVE  DistancesFit'
<1>1. Hops' = Hops
  BY HopsStay
<1> QED BY <1>1 DEF DistancesFit

LEMMA SoundTypes ==
  ASSUME RoundsAreSound
  PROVE  /\ ControlTypeOK /\ DistancesFit /\ graph \in Graphs
         /\ round \in Nat /\ stride \in Nat \ {0} /\ Level \in Int
         /\ \A v \in Vertices : /\ Distance[v] \in 0..Size \cup {Unreached}
                                /\ Distance[v] >= Hops[v]
                                /\ Hops[v] \in 0..(Size - 1) \cup {Unreached}
<1>1. ControlTypeOK /\ DistancesFit
  BY DEF RoundsAreSound
<1>2. graph \in Graphs /\ round \in Nat /\ stride \in Nat \ {0} /\ Level \in Int
  BY <1>1, VertexConstants DEF ControlTypeOK, Level
<1> QED BY <1>1, <1>2, HopsAre DEF DistancesFit

(* The search is over when there is nothing at the level to go on from. *)
LEMMA EndIsExact ==
  ASSUME RoundsAreSound, NEW r \in Nat, Ring(r) = {}, Exact(r - 1) \/ Exact(r)
  PROVE  Distance = Hops
<1>1. \A v \in Vertices : Distance[v] = Hops[v]
  <2> SUFFICES ASSUME NEW v \in Vertices PROVE Distance[v] = Hops[v]
    OBVIOUS
  <2>1. Hops[v] \in Nat /\ (Hops[v] >= r => Hops[v] = Unreached)
    BY SoundTypes, EmptyRing, VertexConstants
  <2> QED BY <2>1 DEF Exact
<1> QED BY <1>1, SoundTypes, HopsAre DEF DistancesFit

LEMMA BreakIsSound ==
  ASSUME RoundsAreSound, Break, Distance' = Distance
  PROVE  RoundsAreSound'
<1>1. /\ phase = "top" /\ mode # 1 /\ next_frontier = {} /\ phase' = "ended"
      /\ UNCHANGED <<program, active, frontier, next_frontier, mode, stride, round, work,
                     pending, job, graph>>
  BY DEF Break
<1>2. AtRest /\ ControlTypeOK /\ DistancesFit
  BY <1>1 DEF RoundsAreSound, TopIs
<1>3. ControlTypeOK'
  BY <1>1, <1>2, JobsStay DEF ControlTypeOK
<1>4. Distance = Hops
  <2>1. CASE mode = 0
    <3>1. Ring(Level) = {} /\ Level \in Nat /\ Exact(round - 1)
      BY <1>1, <2>1 DEF RoundsAreSound, TopIs, Settled
    <3>2. Exact(Level - 1) \/ Exact(Level)
      BY <3>1 DEF Level
    <3> QED BY <3>1, <3>2, EndIsExact
  <2>2. CASE mode # 0
    <3>1. mode >= 5 /\ round \in Nat
      BY <1>1, <1>2, <2>2 DEF ControlTypeOK
    <3>2. Ring(round) = {} /\ Exact(round)
      BY <1>1, <3>1 DEF RoundsAreSound, TopIs, Settled
    <3> QED BY <3>1, <3>2, EndIsExact
  <2> QED BY <2>1, <2>2
<1>5. AtRest' /\ Distance' = Hops'
  BY <1>1, <1>2, <1>4, HopsStay DEF AtRest, Resting
<1>6. DistancesFit'
  BY <1>1, <1>2, FitStays
<1> QED BY <1>1, <1>3, <1>5, <1>6 DEF RoundsAreSound, TopIs, PushIs, WindowIs, EndIs

LEMMA TopDownIsSound ==
  ASSUME RoundsAreSound, TopDown, Distance' = Distance
  PROVE  RoundsAreSound'
<1>1. /\ phase = "top" /\ mode = 0 /\ next_frontier # {} /\ phase' = "push"
      /\ frontier' = next_frontier /\ next_frontier' = {}
      /\ UNCHANGED <<program, active, mode, stride, round, work, pending, job, graph>>
  BY DEF TopDown
<1>2. /\ AtRest /\ ControlTypeOK /\ DistancesFit /\ Exact(round - 1)
      /\ next_frontier = Ring(Level) /\ active = Beyond(Level)
  BY <1>1 DEF RoundsAreSound, TopIs, Settled
<1>3. ControlTypeOK'
  BY <1>1, <1>2, JobsStay DEF ControlTypeOK
<1>4. Level \in 0..(Size - 1) /\ Level' = Level
  BY <1>1, <1>2, SoundTypes, SomeRing DEF Level
<1>5. DistancesFit' /\ Hops' = Hops
  BY <1>1, <1>2, FitStays, HopsStay
<1>6. Ring(Level)' = Ring(Level) /\ Beyond(Level)' = Beyond(Level)
      /\ Ring(Level + 1)' = Ring(Level + 1)
  BY <1>4, <1>5 DEF Ring, Beyond
<1>7. Begun' = {} /\ Claimed' = {}
  <2>1. \A t \in Tasks : job'[t].at = "idle"
    BY <1>1, <1>2, AllIdle DEF AtRest
  <2> QED BY <1>1, <1>2, <1>6, <2>1 DEF Begun, Claimed, Claims
<1>8. PushIs'
  <2>1. \A t \in Tasks : job'[t].at \in {"idle", "claim"}
    BY <1>1, <1>2, AllIdle DEF AtRest
  <2>2. \A v \in Vertices : pending'[v] = 0
    BY <1>1, <1>2 DEF AtRest
  <2>3. work' = {} /\ frontier' = Ring(Level)' /\ active' = Beyond(Level)'
    BY <1>1, <1>2, <1>6 DEF AtRest
  <2>4. ASSUME NEW v \in Vertices
        PROVE  Distance'[v] = IF v \in Written' THEN Hops'[v] ELSE Unreached
    <3>1. v \in Written' <=> Hops[v] <= round - 1
      BY <1>1, <1>4, <1>5, <1>7, SoundTypes, VertexConstants DEF Written, Level
    <3> QED BY <1>2, <1>5, <3>1 DEF Exact
  <2>5. PushDistances'
    BY <2>4 DEF PushDistances
  <2> QED BY <1>1, <1>4, <1>7, <2>1, <2>2, <2>3, <2>5 DEF PushIs, PushFacts
<1> QED BY <1>1, <1>3, <1>5, <1>8 DEF RoundsAreSound, TopIs, WindowIs, EndIs

LEMMA SearchIsSound ==
  ASSUME RoundsAreSound, Search, Distance' = Distance
  PROVE  RoundsAreSound'
<1>1. /\ phase = "top" /\ mode >= 5 /\ phase' = "search"
      /\ frontier' = next_frontier /\ next_frontier' = {}
      /\ UNCHANGED <<program, active, mode, round, work, pending, job, graph>>
  BY DEF Search
<1>2. /\ AtRest /\ ControlTypeOK /\ DistancesFit /\ Exact(round) /\ round >= 1
      /\ {v \in next_frontier : Distance[v] = round} = Ring(round)
      /\ next_frontier \subseteq Reached
  BY <1>1 DEF RoundsAreSound, TopIs, Settled
<1>3. stride' \in 1..MaxStride
  BY <1>2 DEF Search, Strides, ControlTypeOK
<1>4. ControlTypeOK'
  BY <1>1, <1>2, <1>3, JobsStay DEF ControlTypeOK
<1>5. DistancesFit' /\ Hops' = Hops /\ Reached' = Reached
  BY <1>1, <1>2, FitStays, HopsStay DEF Reached
<1>6. WindowEnd' \in Nat /\ round < WindowEnd' /\ round \in Nat
  BY <1>1, <1>3, SoundTypes DEF WindowEnd
<1>7. \A v \in Reached : Distance[v] = Hops[v] /\ Hops[v] <= round /\ Hops[v] # Unreached
  BY <1>2 DEF Exact, Reached
<1>8. \A t \in Tasks : job'[t].at = "idle"
  BY <1>1, <1>2, AllIdle DEF AtRest
<1>9. WindowIs'
  <2>1. \A v \in Vertices : Hops[v] <= round => Distance[v] = Hops[v]
    BY <1>2 DEF Exact
  <2>2. ASSUME NEW v \in Reached
        PROVE  Distance[v] < WindowEnd' /\ Distance[v] < Cardinality(Reached)
    <3>1. v \in Vertices /\ Reached \in SUBSET Vertices
      BY DEF Reached
    <3>2. \A u \in Vertices : Hops[u] <= Hops[v] => u \in Reached
      BY <1>7, <2>1, <3>1, SoundTypes, VertexConstants DEF Reached
    <3>3. Hops[v] < Cardinality(Reached)
      BY <1>7, <3>1, <3>2, RingsCount, SoundTypes
    <3>4. Distance[v] < WindowEnd'
      BY <1>6, <1>7, <3>1, SoundTypes, VertexConstants
    <3> QED BY <1>7, <3>3, <3>4
  <2>3. ASSUME NEW v \in Reached \ {source}
        PROVE  \E e \in graph : e[2] = v /\ Distance[e[1]] < Distance[v]
    <3>1. v \in Vertices
      BY DEF Reached
    <3>2. PICK e \in graph : e[2] = v /\ Hops[e[1]] = Hops[v] - 1
      BY <1>7, <2>3, <3>1, HopsBefore, SoundTypes
    <3>3. e[1] \in Vertices
      BY <1>2, EdgesAre
    <3>4. Distance[e[1]] = Hops[e[1]]
      BY <1>6, <1>7, <2>1, <3>1, <3>2, <3>3, SoundTypes, VertexConstants
    <3> QED BY <1>7, <3>1, <3>2, <3>4, SoundTypes, VertexConstants
  <2>4. ASSUME NEW e \in graph, e[1] \in Reached, Distance[e[1]] >= round
        PROVE  Owed(e)'
    <3>1. Distance[e[1]] = round /\ e[1] \in Ring(round)
      BY <1>6, <1>7, <2>4, SoundTypes, VertexConstants DEF Ring, Reached
    <3>2. e[1] \in frontier'
      BY <1>1, <1>2, <3>1
    <3> QED BY <1>1, <3>1, <3>2 DEF Owed
  <2>5. work' = {} /\ \A v \in Vertices : pending'[v] = 0
    BY <1>1, <1>2 DEF AtRest
  <2>6. frontier' \cup next_frontier' \subseteq Reached'
    BY <1>1, <1>2, <1>5
  <2>7. \A v \in Reached : Distance[v] \in Nat
    BY SoundTypes, VertexConstants DEF Reached
  <2>8. \A v \in Reached' : /\ Distance'[v] <= WindowEnd'
                            /\ Distance'[v] = WindowEnd' => v \in next_frontier'
                            /\ Distance'[v] < Cardinality(Reached)'
    BY <1>5, <1>6, <2>2, <2>7
  <2>9. \A e \in graph' :
          e[1] \in Reached' /\ Distance'[e[1]] \in round'..(WindowEnd' - 1) =>
            Owed(e)' \/ Distance'[e[2]] <= Distance'[e[1]] + 1
    BY <1>1, <1>5, <1>6, <2>4
  <2>10. \A v \in Reached' \ {source} : \E e \in graph' : e[2] = v /\ Distance'[e[1]] < Distance'[v]
    BY <1>1, <1>5, <2>3
  <2>11. \A t \in Tasks : /\ job'[t].at # "claim"
                          /\ job'[t].at = "pull" => IsPulling(t)'
                          /\ job'[t].at = "push" => IsPushing(t)'
    BY <1>8
  <2>12. \A v \in Vertices :
           pending'[v] > 0 => v \in Reached' \ {source} /\ Distance'[v] < WindowEnd'
    BY <2>5
  <2>13. mode' >= 5 /\ round' >= 1 /\ \A v \in Vertices : Hops'[v] <= round' => Distance'[v] = Hops'[v]
    BY <1>1, <1>2, <1>5, <2>1
  <2>14. NearIsExact' /\ InWindow' /\ HasNearer'
    <3>1. NearIsExact'
      BY <2>13 DEF NearIsExact
    <3>2. InWindow'
      BY <2>8 DEF InWindow
    <3>3. HasNearer'
      BY <2>10 DEF HasNearer
    <3> QED BY <3>1, <3>2, <3>3
  <2>15. PendingFit' /\ JobsFit' /\ AllOwed'
    BY <2>9, <2>11, <2>12 DEF PendingFit, JobsFit, AllOwed
  <2> QED BY <2>5, <2>6, <2>13, <2>14, <2>15 DEF WindowIs, WindowFacts
<1> QED BY <1>1, <1>4, <1>5, <1>9 DEF RoundsAreSound, TopIs, PushIs, EndIs

-----------------------------------------------------------------------------
(* The same, for the steps in which the searches differ. *)
LEMMA TopIsSound ==
  ASSUME RoundsAreSound, phase = "top", phase' = "top", DistancesFit', Exact(Settled)',
         UNCHANGED <<program, frontier, stride, work, pending, job, graph>>,
         mode' \in {0, 1} \cup 5..9, round' \in Nat,
         active' \subseteq active, next_frontier' \subseteq Vertices,
         mode' = 0 => (next_frontier = Ring(Level) /\ active = Beyond(Level) /\ Level \in Nat)',
         mode' = 1 => (next_frontier = {} /\ active = Beyond(round - 1) /\ round \in 1..Size)',
         mode' >= 5 => ({v \in next_frontier : Distance[v] = round} = Ring(round))'
                         /\ (next_frontier \subseteq Reached /\ round >= 1)'
  PROVE  RoundsAreSound'
<1>1. AtRest /\ ControlTypeOK
  BY DEF RoundsAreSound, TopIs
<1>2. AtRest'
  BY <1>1 DEF AtRest, Resting
<1>3. ControlTypeOK'
  BY <1>1, JobsStay DEF ControlTypeOK
<1>4. TopIs'
  BY <1>2 DEF TopIs
<1> QED BY <1>3, <1>4 DEF RoundsAreSound, PushIs, WindowIs, EndIs

LEMMA RingIsWritten ==
  ASSUME RoundsAreSound, NEW r \in 0..(Size - 1), Exact(r - 1), graph' = graph,
         Distance' = [v \in Vertices |-> IF v \in Ring(r) THEN r ELSE Distance[v]]
  PROVE  /\ DistancesFit'
         /\ \A v \in Vertices : Distance'[v] = IF Hops'[v] <= r THEN Hops'[v] ELSE Unreached
<1>1. Hops' = Hops /\ r \in Nat /\ r # Unreached /\ r \in 0..Size
  BY HopsStay, VertexConstants
<1>2. ASSUME NEW v \in Vertices
      PROVE  /\ Distance'[v] = IF Hops[v] <= r THEN Hops[v] ELSE Unreached
             /\ Distance'[v] \in 0..Size \cup {Unreached} /\ Distance'[v] >= Hops[v]
  <2>1. Hops[v] \in 0..(Size - 1) \cup {Unreached} /\ Unreached \in Nat /\ Size \in Nat
    BY SoundTypes, VertexConstants
  <2>2. v \in Ring(r) <=> Hops[v] = r
    BY <1>1 DEF Ring
  <2>3. Distance'[v] = IF Hops[v] <= r THEN Hops[v] ELSE Unreached
    BY <1>1, <2>1, <2>2 DEF Exact
  <2>4. Unreached >= Hops[v]
    BY <2>1, VertexConstants
  <2> QED BY <1>1, <2>1, <2>3, <2>4
<1> QED BY <1>1, <1>2 DEF DistancesFit

LEMMA FoundNowIs ==
  ASSUME RoundsAreSound, phase = "top", mode = 1
  PROVE  /\ FoundNow = Ring(round) /\ active \ FoundNow = Beyond(round) /\ next_frontier = {}
         /\ round \in 1..Size /\ Exact(round - 1)
         /\ \A s \in FoundNow : \A p \in FoundBy(s) :
              p \in Vertices /\ <<p, s>> \in graph /\ Hops[p] < round
<1>1. /\ active = Beyond(round - 1) /\ next_frontier = {} /\ round \in 1..Size /\ Exact(round - 1)
      /\ ControlTypeOK /\ graph \in Graphs
  BY SoundTypes DEF TopIs, RoundsAreSound, Settled
<1>2. ASSUME NEW s \in Vertices, NEW p
      PROVE  p \in FoundBy(s) <=> p \in Vertices /\ <<p, s>> \in graph /\ Hops[p] < round
  <2>1. p \in FoundBy(s) <=> (\E e \in graph : e[2] = s /\ e[1] = p) /\ p \notin active
    BY DEF FoundBy, InEdges
  <2>2. (\E e \in graph : e[2] = s /\ e[1] = p) <=> p \in Vertices /\ <<p, s>> \in graph
    BY <1>1, EdgesAre
  <2>3. p \in Vertices => (p \notin active <=> Hops[p] < round)
    BY <1>1, SoundTypes, VertexConstants DEF Beyond
  <2> QED BY <2>1, <2>2, <2>3
<1>3. ASSUME NEW s \in Vertices PROVE s \in FoundNow <=> s \in Ring(round)
  <2>1. s \in FoundNow <=> Hops[s] >= round /\ FoundBy(s) # {}
    BY <1>1, SoundTypes, VertexConstants DEF FoundNow, Beyond
  <2>2. ASSUME Hops[s] >= round, NEW p \in FoundBy(s) PROVE s \in Ring(round)
    <3>1. <<p, s>> \in graph /\ Hops[p] < round /\ Hops[p] \in 0..(Size - 1) /\ p \in Vertices
      BY <1>1, <1>2, <2>2, SoundTypes, VertexConstants
    <3>2. Hops[s] # Unreached /\ Hops[s] <= Hops[p] + 1
      <4> DEFINE e == <<p, s>>
      <4>1. e \in graph /\ e[1] = p /\ e[2] = s /\ Hops[e[1]] # Unreached
        BY <3>1, VertexConstants
      <4> HIDE DEF e
      <4> QED BY <1>1, <4>1, HopsOver
    <3> QED BY <1>1, <2>2, <3>1, <3>2, SoundTypes, VertexConstants DEF Ring
  <2>3. ASSUME s \in Ring(round) PROVE Hops[s] >= round /\ FoundBy(s) # {}
    <3>1. Hops[s] = round /\ round - 1 \in Nat /\ (round - 1) + 1 = round
      BY <1>1, <2>3 DEF Ring
    <3>2. PICK e \in graph : e[2] = s /\ e[1] \in Ring(round - 1)
      BY <1>1, <2>3, <3>1, RingBefore
    <3>3. e[1] \in FoundBy(s)
      <4>1. e[1] \in Vertices /\ e = <<e[1], s>> /\ Hops[e[1]] = round - 1
        BY <1>1, <3>2, EdgesAre DEF Ring
      <4> QED BY <1>1, <1>2, <3>1, <4>1
    <3> QED BY <1>1, <3>1, <3>3
  <2> QED BY <2>1, <2>2, <2>3
<1>4. FoundNow = Ring(round)
  BY <1>1, <1>3 DEF FoundNow, Ring, Beyond
<1>5. active \ FoundNow = Beyond(round)
  <2>1. \A v \in Vertices : Hops[v] > round <=> Hops[v] > round - 1 /\ v \notin Ring(round)
    BY <1>1, SoundTypes, VertexConstants DEF Ring
  <2> QED BY <1>1, <1>4, <2>1 DEF Beyond
<1> QED BY <1>1, <1>2, <1>4, <1>5 DEF FoundNow, Beyond

(* Mode 0 changes to another: there is a next round. *)
LEMMA FrontierIsRing ==
  ASSUME RoundsAreSound, phase = "top", mode = 0, next_frontier # {}
  PROVE  /\ next_frontier = Ring(Level) /\ active = Beyond(Level) /\ Level \in 0..(Size - 1)
         /\ Exact(round - 1)
<1>1. next_frontier = Ring(Level) /\ active = Beyond(Level) /\ Level \in Nat /\ Exact(round - 1)
  BY DEF RoundsAreSound, TopIs, Settled
<1> QED BY <1>1, SoundTypes, SomeRing

(* No vertex was found bottom up. *)
LEMMA NoneIsFound ==
  ASSUME RoundsAreSound, phase = "top", mode = 1, FoundNow = {}, phase' = "ended",
         UNCHANGED <<program, active, frontier, next_frontier, mode, stride, round, work,
                     pending, job, graph>>,
         Distance' = Distance
  PROVE  RoundsAreSound'
<1>1. AtRest /\ ControlTypeOK /\ DistancesFit /\ round \in Nat
  BY SoundTypes DEF RoundsAreSound, TopIs
<1>2. ControlTypeOK'
  BY <1>1, JobsStay DEF ControlTypeOK
<1>3. Distance = Hops
  BY <1>1, FoundNowIs, EndIsExact
<1>4. AtRest' /\ Distance' = Hops'
  BY <1>1, <1>3, HopsStay DEF AtRest, Resting
<1>5. DistancesFit'
  BY <1>1, FitStays
<1> QED BY <1>2, <1>4, <1>5 DEF RoundsAreSound, TopIs, PushIs, WindowIs, EndIs

(* Rounds of breadth_first_search. *)
LEMMA DistOfRing ==
  ASSUME RoundsAreSound, program = "search", program' = "search", graph' = graph,
         round \in 0..(Size - 1), Exact(round - 1), dist' = DistOf(Ring(round))
  PROVE  /\ DistancesFit'
         /\ \A v \in Vertices : Distance'[v] = IF Hops'[v] <= round THEN Hops'[v] ELSE Unreached
<1>1. Distance' = [v \in Vertices |-> IF v \in Ring(round) THEN round ELSE Distance[v]]
  BY DEF Distance, DistOf
<1> QED BY <1>1, RingIsWritten

LEMMA ToBottomUpIsSound ==
  ASSUME RoundsAreSound, program = "search", ToBottomUp
  PROVE  RoundsAreSound'
<1>1. /\ phase = "top" /\ mode = 0 /\ next_frontier # {} /\ dist' = DistOf(next_frontier)
      /\ next_frontier' = {} /\ mode' = 1 /\ round' = round + 1
      /\ UNCHANGED <<program, active, frontier, stride, phase, work, pending, job, graph>>
  BY DEF ToBottomUp
<1>2. /\ next_frontier = Ring(round) /\ active = Beyond(round) /\ round \in 0..(Size - 1)
      /\ Exact(round - 1)
  BY <1>1, FrontierIsRing DEF Level
<1>3. /\ DistancesFit'
      /\ \A v \in Vertices : Distance'[v] = IF Hops'[v] <= round THEN Hops'[v] ELSE Unreached
  BY <1>1, <1>2, DistOfRing
<1>4. round' - 1 = round /\ round' \in 1..Size /\ Settled' = round
  BY <1>1, <1>2, VertexConstants DEF Settled
<1>5. Exact(Settled)'
  BY <1>3, <1>4 DEF Exact
<1>6. active' = Beyond(round - 1)'
  BY <1>1, <1>2, <1>4, HopsStay DEF Beyond
<1> QED BY <1>1, <1>3, <1>4, <1>5, <1>6, TopIsSound

LEMMA ToSearchIsSound ==
  ASSUME RoundsAreSound, program = "search", ToSearch
  PROVE  RoundsAreSound'
<1>1. /\ phase = "top" /\ mode = 0 /\ next_frontier # {} /\ dist' = DistOf(next_frontier)
      /\ mode' = 5 /\ round >= LongAfter
      /\ UNCHANGED <<program, active, frontier, next_frontier, stride, round, phase, work,
                     pending, job, graph>>
  BY DEF ToSearch
<1>2. /\ next_frontier = Ring(round) /\ round \in 0..(Size - 1) /\ Exact(round - 1)
  BY <1>1, FrontierIsRing DEF Level
<1>3. /\ DistancesFit'
      /\ \A v \in Vertices : Distance'[v] = IF Hops'[v] <= round THEN Hops'[v] ELSE Unreached
  BY <1>1, <1>2, DistOfRing
<1>4. Settled' = round /\ round >= 1
  BY <1>1, <1>2, VertexConstants DEF Settled
<1>5. Exact(Settled)'
  BY <1>3, <1>4 DEF Exact
<1>6. \A v \in Ring(round) : v \in Vertices /\ Distance'[v] = round /\ round # Unreached
  BY <1>1, <1>2, <1>3, HopsStay, VertexConstants DEF Ring
<1>7. ({v \in next_frontier : Distance[v] = round} = Ring(round))'
  BY <1>1, <1>2, <1>6, HopsStay DEF Ring
<1>8. (next_frontier \subseteq Reached /\ round >= 1)'
  BY <1>1, <1>2, <1>4, <1>6 DEF Reached
<1>9. next_frontier' \subseteq Vertices /\ round' \in Nat
  BY <1>1, SoundTypes DEF ControlTypeOK
<1> QED BY <1>1, <1>3, <1>5, <1>7, <1>8, <1>9, TopIsSound

LEMMA BottomUpIsSound ==
  ASSUME RoundsAreSound, program = "search", BottomUp
  PROVE  RoundsAreSound'
<1>1. /\ phase = "top" /\ mode = 1
      /\ UNCHANGED <<program, frontier, stride, work, pending, job, graph>>
  BY DEF BottomUp
<1>2. CASE FoundNow = {}
  <2>1. phase' = "ended" /\ UNCHANGED <<active, next_frontier, dist, mode, round>>
    BY <1>2 DEF BottomUp
  <2>2. Distance' = Distance
    BY <1>1, <2>1 DEF Distance
  <2> QED BY <1>1, <1>2, <2>1, <2>2, NoneIsFound
<1>3. CASE FoundNow # {}
  <2>1. /\ phase' = "top" /\ active' = active \ FoundNow
        /\ \/ /\ next_frontier' = FoundNow /\ mode' = 0
              /\ UNCHANGED <<dist, round>>
           \/ /\ dist' = DistOf(FoundNow) /\ round' = round + 1
              /\ UNCHANGED <<next_frontier, mode>>
    BY <1>1, <1>3 DEF BottomUp
  <2>2. /\ FoundNow = Ring(round) /\ active' = Beyond(round) /\ active' \subseteq active
        /\ round \in 1..(Size - 1) /\ Exact(round - 1) /\ next_frontier = {}
        /\ FoundNow \subseteq Vertices
    BY <1>1, <1>3, <2>1, FoundNowIs, SomeRing, SoundTypes, VertexConstants DEF Ring
  <2>3. Hops' = Hops /\ round \in Nat /\ round \in 0..(Size - 1)
    BY <1>1, <2>2, HopsStay
  <2>4. CASE next_frontier' = FoundNow /\ mode' = 0 /\ UNCHANGED <<dist, round>>
    <3>1. Distance' = Distance /\ DistancesFit'
      BY <1>1, <2>4, FitStays, SoundTypes DEF Distance
    <3>2. Settled' = round - 1 /\ Level' = round
      BY <1>1, <2>4 DEF Settled, Level
    <3>3. Exact(Settled)'
      BY <2>2, <2>3, <3>1, <3>2 DEF Exact
    <3>4. (next_frontier = Ring(Level) /\ active = Beyond(Level) /\ Level \in Nat)'
      BY <2>2, <2>3, <2>4, <3>2 DEF Ring, Beyond
    <3>5. next_frontier' \subseteq Vertices /\ round' \in Nat
      BY <2>2, <2>3, <2>4
    <3> QED BY <1>1, <2>1, <2>2, <2>4, <3>1, <3>3, <3>4, <3>5, TopIsSound
  <2>5. CASE dist' = DistOf(FoundNow) /\ round' = round + 1 /\ UNCHANGED <<next_frontier, mode>>
    <3>1. /\ DistancesFit'
          /\ \A v \in Vertices : Distance'[v] = IF Hops'[v] <= round THEN Hops'[v] ELSE Unreached
      BY <1>1, <2>2, <2>3, <2>5, DistOfRing
    <3>2. Settled' = round /\ round' - 1 = round /\ round' \in 1..Size
      BY <1>1, <2>2, <2>5, VertexConstants DEF Settled
    <3>3. Exact(Settled)'
      BY <3>1, <3>2 DEF Exact
    <3>4. active' = Beyond(round - 1)'
      BY <2>2, <2>3, <3>2 DEF Beyond
    <3> QED BY <1>1, <2>1, <2>2, <2>5, <3>1, <3>2, <3>3, <3>4, TopIsSound
  <2> QED BY <2>1, <2>4, <2>5
<1> QED BY <1>2, <1>3

(* Rounds of breadth_first_search_tree. *)
LEMMA TreeToBottomUpIsSound ==
  ASSUME RoundsAreSound, program = "tree", TreeToBottomUp
  PROVE  RoundsAreSound'
<1>1. /\ phase = "top" /\ mode = 0 /\ next_frontier # {} /\ next_frontier' = {} /\ mode' = 1
      /\ UNCHANGED <<program, active, frontier, dist_and_parent, stride, round, phase, work,
                     pending, job, graph>>
  BY DEF TreeToBottomUp
<1>2. /\ active = Beyond(round - 1) /\ round - 1 \in 0..(Size - 1) /\ Exact(round - 1)
  BY <1>1, FrontierIsRing DEF Level
<1>3. Distance' = Distance /\ Hops' = Hops
  BY <1>1, HopsStay DEF Distance, Dist
<1>4. DistancesFit'
  BY <1>1, <1>3, FitStays, SoundTypes
<1>5. round' = round /\ round \in 1..Size /\ Settled' = round - 1
  BY <1>1, <1>2, SoundTypes, VertexConstants DEF Settled
<1>6. Exact(Settled)' /\ active' = Beyond(round - 1)'
  BY <1>1, <1>2, <1>3, <1>5 DEF Exact, Beyond
<1> QED BY <1>1, <1>4, <1>5, <1>6, TopIsSound

LEMMA TreeToSearchIsSound ==
  ASSUME RoundsAreSound, program = "tree", TreeToSearch
  PROVE  RoundsAreSound'
<1>1. /\ phase = "top" /\ mode = 0 /\ next_frontier # {} /\ round >= LongAfter
      /\ mode' = 5 /\ round' = round - 1
      /\ UNCHANGED <<program, active, frontier, next_frontier, dist_and_parent, stride, phase,
                     work, pending, job, graph>>
  BY DEF TreeToSearch, SearchFrom
<1>2. /\ next_frontier = Ring(round - 1) /\ round - 1 \in 0..(Size - 1) /\ Exact(round - 1)
  BY <1>1, FrontierIsRing DEF Level
<1>3. Distance' = Distance /\ Hops' = Hops
  BY <1>1, HopsStay DEF Distance, Dist
<1>4. DistancesFit'
  BY <1>1, <1>3, FitStays, SoundTypes
<1>5. Settled' = round - 1 /\ round - 1 >= 1 /\ round' \in Nat
  BY <1>1, <1>2, SoundTypes, VertexConstants DEF Settled
<1>6. Exact(Settled)'
  BY <1>2, <1>3, <1>5 DEF Exact
<1>7. \A v \in Ring(round - 1) : v \in Vertices /\ Distance[v] = round - 1 /\ round - 1 # Unreached
  BY <1>2, SoundTypes, VertexConstants DEF Ring, Exact
<1>8. ({v \in next_frontier : Distance[v] = round} = Ring(round))'
  BY <1>1, <1>2, <1>3, <1>7 DEF Ring
<1>9. (next_frontier \subseteq Reached /\ round >= 1)'
  BY <1>1, <1>2, <1>3, <1>5, <1>7 DEF Reached
<1>10. next_frontier' \subseteq Vertices
  BY <1>1, <1>2 DEF Ring
<1> QED BY <1>1, <1>4, <1>5, <1>6, <1>8, <1>9, <1>10, TopIsSound

LEMMA TreeBottomUpIsSound ==
  ASSUME RoundsAreSound, program = "tree", TreeBottomUp
  PROVE  RoundsAreSound'
<1>1. /\ phase = "top" /\ mode = 1
      /\ UNCHANGED <<program, frontier, stride, work, pending, job, graph>>
  BY DEF TreeBottomUp
<1>2. PICK par \in [FoundNow -> Vertices] :
        dist_and_parent' = [v \in Vertices |-> IF v \in FoundNow THEN <<round, par[v]>>
                                                                ELSE dist_and_parent[v]]
  BY DEF TreeBottomUp
<1>3. Distance' = [v \in Vertices |-> IF v \in FoundNow THEN round ELSE Distance[v]]
  BY <1>1, <1>2 DEF Distance, Dist
<1>4. CASE FoundNow = {}
  <2>1. phase' = "ended" /\ UNCHANGED <<active, next_frontier, mode, round>>
    BY <1>4 DEF TreeBottomUp
  <2>2. Distance' = Distance
    BY <1>3, <1>4, SoundTypes DEF DistancesFit
  <2> QED BY <1>1, <1>4, <2>1, <2>2, NoneIsFound
<1>5. CASE FoundNow # {}
  <2>1. /\ phase' = "top" /\ active' = active \ FoundNow /\ round' = round + 1
        /\ \/ next_frontier' = FoundNow /\ mode' = 0
           \/ UNCHANGED <<next_frontier, mode>>
    BY <1>1, <1>5 DEF TreeBottomUp
  <2>2. /\ FoundNow = Ring(round) /\ active' = Beyond(round) /\ active' \subseteq active
        /\ round \in 1..(Size - 1) /\ Exact(round - 1) /\ next_frontier = {}
        /\ FoundNow \subseteq Vertices
    BY <1>1, <1>5, <2>1, FoundNowIs, SomeRing, SoundTypes, VertexConstants DEF Ring
  <2>3. Hops' = Hops /\ round \in Nat /\ round \in 0..(Size - 1)
    BY <1>1, <2>2, HopsStay
  <2>4. /\ DistancesFit'
        /\ \A v \in Vertices : Distance'[v] = IF Hops'[v] <= round THEN Hops'[v] ELSE Unreached
    BY <1>1, <1>3, <2>2, <2>3, RingIsWritten
  <2>5. Settled' = round /\ round' - 1 = round /\ round' \in 1..Size /\ Level' = round
    BY <1>1, <2>1, <2>2, VertexConstants DEF Settled, Level
  <2>6. Exact(Settled)' /\ active' = Beyond(round - 1)' /\ active' = Beyond(Level)'
    BY <2>2, <2>3, <2>4, <2>5 DEF Exact, Beyond
  <2>7. next_frontier' = FoundNow => next_frontier' = Ring(Level)'
    BY <2>2, <2>3, <2>5 DEF Ring
  <2>8. next_frontier' \subseteq Vertices /\ Level' \in Nat /\ round' \in Nat
    BY <2>1, <2>2, <2>3, <2>5
  <2> QED BY <1>1, <2>1, <2>2, <2>4, <2>5, <2>6, <2>7, <2>8, TopIsSound
<1> QED BY <1>4, <1>5

-----------------------------------------------------------------------------
(* Steps of mode 0. *)
LEMMA PushIsSound ==
  ASSUME phase' = "push", ControlTypeOK', DistancesFit', PushFacts'
  PROVE  RoundsAreSound'
BY DEF RoundsAreSound, TopIs, WindowIs, EndIs, PushIs

LEMMA LevelStays ==
  ASSUME RoundsAreSound, phase = "push", program' = program, round' = round, graph' = graph
  PROVE  /\ Level' = Level /\ Hops' = Hops /\ Ring(Level)' = Ring(Level)
         /\ Ring(Level + 1)' = Ring(Level + 1) /\ Beyond(Level)' = Beyond(Level)
         /\ PushFacts /\ graph \in Graphs /\ ControlTypeOK /\ Level \in 0..(Size - 1)
         /\ Level + 1 \in 1..Size /\ Level + 1 # Unreached
<1>1. PushFacts /\ graph \in Graphs /\ ControlTypeOK
  BY SoundTypes DEF RoundsAreSound, PushIs
<1>2. Level \in 0..(Size - 1) /\ Level + 1 \in 1..Size /\ Level + 1 # Unreached
  BY <1>1, VertexConstants DEF PushFacts
<1>3. Level' = Level /\ Hops' = Hops
  BY HopsStay DEF Level
<1> QED BY <1>1, <1>2, <1>3 DEF Ring, Beyond

LEMMA TakeIsSound ==
  ASSUME RoundsAreSound, NEW s, Take(s),
         Distance' = IF program = "search"
                       THEN [v \in Vertices |-> IF v = s THEN round ELSE Distance[v]]
                       ELSE Distance
  PROVE  RoundsAreSound'
<1>1. /\ phase = "push" /\ phase' = "push" /\ s \in frontier
      /\ frontier' = frontier \ {s} /\ work' = work \cup OutEdges(s)
      /\ UNCHANGED <<program, active, next_frontier, mode, stride, round, pending, job, graph>>
  BY DEF Take
<1>2. /\ Level' = Level /\ Hops' = Hops /\ Ring(Level)' = Ring(Level)
      /\ Ring(Level + 1)' = Ring(Level + 1) /\ Beyond(Level)' = Beyond(Level)
      /\ PushFacts /\ graph \in Graphs /\ ControlTypeOK /\ Level \in 0..(Size - 1)
      /\ Level + 1 \in 1..Size /\ Level + 1 # Unreached
  BY <1>1, LevelStays
<1>3. s \in Ring(Level) /\ s \in Vertices /\ Hops[s] = Level /\ OutEdges(s) \subseteq graph
  BY <1>1, <1>2 DEF PushFacts, Ring, OutEdges
<1>4. ControlTypeOK'
  BY <1>1, <1>2, <1>3, JobsStay DEF ControlTypeOK
<1>5. Begun' = Begun \cup {s} /\ Claimed' = Claimed
  BY <1>1, <1>2, <1>3 DEF Begun, Claimed, Claims
<1>6. Written' = IF program = "search" THEN Written \cup {s} ELSE Written
  BY <1>1, <1>2, <1>5 DEF Written
<1>7. ASSUME NEW v \in Vertices
      PROVE  Distance'[v] = IF v \in Written' THEN Hops'[v] ELSE Unreached
  <2>1. Distance[v] = IF v \in Written THEN Hops[v] ELSE Unreached
    BY <1>2 DEF PushFacts, PushDistances
  <2>2. CASE program = "search"
    <3>1. round = Level
      BY <2>2 DEF Level
    <3> QED BY <1>2, <1>3, <1>6, <2>1, <2>2, <3>1
  <2> QED BY <1>2, <1>6, <2>1, <2>2
<1>8. DistancesFit'
  <2>1. Distance' \in [Vertices -> 0..Size \cup {Unreached}]
    <3>1. \A v \in Vertices : Distance'[v] \in 0..Size \cup {Unreached}
      BY <1>2, <1>7, SoundTypes, VertexConstants
    <3> QED BY <3>1, SoundTypes DEF DistancesFit
  <2>2. \A v \in Vertices : Distance'[v] >= Hops'[v]
    BY <1>2, <1>7, SoundTypes, VertexConstants
  <2> QED BY <2>1, <2>2 DEF DistancesFit
<1>9. \A e \in work' : e[1] \in Begun'
  BY <1>1, <1>2, <1>5 DEF PushFacts, OutEdges
<1>10. ASSUME NEW e \in graph, e[1] \in Begun', e[2] \in Ring(Level + 1)
       PROVE  e \in work' \/ e[2] \in Claimed'
  <2>1. CASE e[1] = s
    BY <1>1, <2>1 DEF OutEdges
  <2>2. CASE e[1] \in Begun
    BY <1>1, <1>2, <1>5, <1>10, <2>2 DEF PushFacts
  <2> QED BY <1>5, <1>10, <2>1, <2>2
<1>11. PushFacts'
  <2>1. PushDistances'
    BY <1>7 DEF PushDistances
  <2>2. frontier' \subseteq Ring(Level)'
    BY <1>1, <1>2 DEF PushFacts
  <2>3. active' = (Beyond(Level) \ next_frontier)' /\ Claimed' \subseteq Ring(Level + 1)'
    BY <1>1, <1>2, <1>5 DEF PushFacts
  <2>4. \A e \in graph' : e[1] \in Begun' /\ e[2] \in Ring(Level + 1)' => e \in work' \/ e[2] \in Claimed'
    BY <1>1, <1>2, <1>10
  <2>5. mode' = 0 /\ (\A v \in Vertices : pending'[v] = 0)
          /\ \A t \in Tasks : job'[t].at \in {"idle", "claim"}
    BY <1>1, <1>2 DEF PushFacts
  <2> QED BY <1>2, <1>9, <2>1, <2>2, <2>3, <2>4, <2>5 DEF PushFacts
<1> QED BY <1>1, <1>4, <1>8, <1>11, PushIsSound

(* A task that looks over an edge claims its end, or has no need to. *)
LEMMA LookDoes ==
  ASSUME ControlTypeOK, NEW t \in Tasks, NEW e, NEW claimed, Look(t, e, claimed)
  PROVE  /\ e \in work /\ e[2] \in Vertices /\ phase = "push" /\ phase' = "push"
         /\ job' \in [Tasks -> Jobs']
         /\ \A u \in Tasks : job'[u].at = job[u].at \/ (u = t /\ claimed /\ job'[u].at = "claim")
         /\ claimed => Claims' = Claims \cup {e[2]}
         /\ ~ claimed => Claims' = Claims
<1>1. /\ e \in work /\ job[t] = NoJob /\ phase = "push" /\ phase' = "push"
      /\ job' = IF claimed THEN [job EXCEPT ![t] = [at |-> "claim", s |-> e[2]]] ELSE job
      /\ graph' = graph
  BY DEF Look
<1>2. e[2] \in Vertices
  BY <1>1, EdgesAre DEF ControlTypeOK
<1>3. NoJob.at = "idle"
  BY DEF NoJob
<1>4. CASE claimed
  <2> DEFINE c == [at |-> "claim", s |-> e[2]]
  <2>1. c \in Jobs /\ job' = [job EXCEPT ![t] = c]
    BY <1>1, <1>2, <1>4, ClaimingIs
  <2>2. /\ job' \in [Tasks -> Jobs'] /\ job'[t] = c
        /\ \A u \in Tasks : u # t => job'[u] = job[u]
    <3> HIDE DEF c
    <3> QED BY <1>1, <2>1, JobChanges
  <2>3. Claims' = Claims \cup {e[2]}
    BY <1>1, <1>3, <2>2 DEF Claims
  <2> QED BY <1>1, <1>2, <1>4, <2>2, <2>3
<1>5. CASE ~ claimed
  BY <1>1, <1>2, <1>5, JobsStay DEF Claims
<1> QED BY <1>4, <1>5

LEMMA LookIsSound ==
  ASSUME RoundsAreSound, NEW t \in Tasks, NEW e, NEW claimed, Look(t, e, claimed),
         claimed => e[2] \in Ring(Level + 1),
         ~ claimed => Hops[e[2]] <= Level \/ e[2] \in Claimed,
         Distance' = IF program # "search" /\ claimed
                       THEN [v \in Vertices |-> IF v = e[2] THEN Level + 1 ELSE Distance[v]]
                       ELSE Distance
  PROVE  RoundsAreSound'
<1>1. /\ work' = work \ {e}
      /\ UNCHANGED <<program, active, frontier, next_frontier, mode, stride, round, phase,
                     pending, graph>>
  BY DEF Look
<1>2. ControlTypeOK
  BY DEF RoundsAreSound
<1>3. /\ e \in work /\ e[2] \in Vertices /\ phase = "push" /\ phase' = "push"
      /\ job' \in [Tasks -> Jobs']
      /\ \A u \in Tasks : job'[u].at = job[u].at \/ (u = t /\ claimed /\ job'[u].at = "claim")
      /\ claimed => Claims' = Claims \cup {e[2]}
      /\ ~ claimed => Claims' = Claims
  BY <1>2, LookDoes
<1>4. /\ Level' = Level /\ Hops' = Hops /\ Ring(Level)' = Ring(Level)
      /\ Ring(Level + 1)' = Ring(Level + 1) /\ Beyond(Level)' = Beyond(Level)
      /\ PushFacts /\ graph \in Graphs /\ Level \in 0..(Size - 1)
      /\ Level + 1 \in 1..Size /\ Level + 1 # Unreached
  BY <1>1, <1>3, LevelStays
<1>5. ControlTypeOK'
  BY <1>1, <1>2, <1>3 DEF ControlTypeOK
<1>6. /\ Begun' = Begun
      /\ Claimed' = IF claimed THEN Claimed \cup {e[2]} ELSE Claimed
  BY <1>1, <1>3, <1>4 DEF Begun, Claimed
<1>7. Written' = IF program # "search" /\ claimed THEN Written \cup {e[2]} ELSE Written
  BY <1>1, <1>4, <1>6 DEF Written
<1>8. claimed => Hops[e[2]] = Level + 1
  BY DEF Ring
<1>9. ASSUME NEW v \in Vertices
      PROVE  Distance'[v] = IF v \in Written' THEN Hops'[v] ELSE Unreached
  <2>1. Distance[v] = IF v \in Written THEN Hops[v] ELSE Unreached
    BY <1>4 DEF PushFacts, PushDistances
  <2>2. CASE program # "search" /\ claimed
    BY <1>4, <1>7, <1>8, <2>1, <2>2
  <2>3. CASE ~ (program # "search" /\ claimed)
    BY <1>4, <1>7, <2>1, <2>3
  <2> QED BY <2>2, <2>3
<1>10. DistancesFit'
  <2>1. Distance' \in [Vertices -> 0..Size \cup {Unreached}]
    <3>1. \A v \in Vertices : Distance'[v] \in 0..Size \cup {Unreached}
      BY <1>4, <1>9, SoundTypes, VertexConstants
    <3> QED BY <3>1, SoundTypes DEF DistancesFit
  <2>2. \A v \in Vertices : Distance'[v] >= Hops'[v]
    BY <1>4, <1>9, SoundTypes, VertexConstants
  <2> QED BY <2>1, <2>2 DEF DistancesFit
<1>11. PushFacts'
  <2>1. PushDistances'
    BY <1>9 DEF PushDistances
  <2>2. /\ frontier' \subseteq Ring(Level)' /\ (\A f \in work' : f[1] \in Begun')
        /\ active' = (Beyond(Level) \ next_frontier)'
    BY <1>1, <1>4, <1>6 DEF PushFacts
  <2>3. Claimed' \subseteq Ring(Level + 1)'
    BY <1>4, <1>6 DEF PushFacts
  <2>4. ASSUME NEW f \in graph, f[1] \in Begun, f[2] \in Ring(Level + 1)
        PROVE  f \in work' \/ f[2] \in Claimed'
    <3>1. f \in work \/ f[2] \in Claimed
      BY <1>4, <2>4 DEF PushFacts
    <3>2. CASE f # e
      BY <1>1, <1>6, <3>1, <3>2
    <3>3. CASE f = e
      <4>1. ~ Hops[e[2]] <= Level
        BY <1>4, <2>4, <3>3 DEF Ring
      <4> QED BY <1>6, <3>3, <4>1
    <3> QED BY <3>2, <3>3
  <2>5. \A f \in graph' : f[1] \in Begun' /\ f[2] \in Ring(Level + 1)' => f \in work' \/ f[2] \in Claimed'
    BY <1>1, <1>4, <1>6, <2>4
  <2>6. mode' = 0 /\ \A v \in Vertices : pending'[v] = 0
    BY <1>1, <1>4 DEF PushFacts
  <2>7. \A u \in Tasks : job'[u].at \in {"idle", "claim"}
    BY <1>3, <1>4 DEF PushFacts
  <2> QED BY <1>4, <2>1, <2>2, <2>3, <2>5, <2>6, <2>7 DEF PushFacts
<1> QED BY <1>3, <1>5, <1>10, <1>11, PushIsSound

LEMMA LookUpIsSound ==
  ASSUME RoundsAreSound, program = "search", NEW t \in Tasks, NEW e, LookUp(t, e)
  PROVE  RoundsAreSound'
<1>1. /\ Look(t, e, e[2] \in active) /\ dist' = dist /\ phase = "push" /\ e \in work
      /\ UNCHANGED <<program, round, graph>>
  BY DEF LookUp, Look
<1>2. /\ PushFacts /\ graph \in Graphs /\ ControlTypeOK /\ Level \in 0..(Size - 1)
      /\ Level + 1 # Unreached
  BY <1>1, LevelStays
<1>3. /\ e \in graph /\ e[2] \in Vertices /\ e[1] \in Begun
      /\ active = Beyond(Level) \ next_frontier
  BY <1>1, <1>2, EdgesAre DEF PushFacts, ControlTypeOK
<1>4. Hops[e[1]] = Level /\ Hops[e[1]] # Unreached /\ Hops[e[2]] \in Nat
  BY <1>2, <1>3, SoundTypes, VertexConstants DEF Begun, Ring
<1>5. Hops[e[2]] <= Level + 1
  BY <1>2, <1>3, <1>4, HopsOver
<1>6. e[2] \in active => e[2] \in Ring(Level + 1)
  BY <1>2, <1>3, <1>4, <1>5 DEF Beyond, Ring
<1>7. e[2] \notin active => Hops[e[2]] <= Level \/ e[2] \in Claimed
  BY <1>2, <1>3, <1>4 DEF Beyond, Claimed
<1>8. Distance' = Distance
  BY <1>1 DEF Distance
<1> HIDE DEF Look
<1> QED BY <1>1, <1>6, <1>7, <1>8, LookIsSound

(* The words of the tree, ordered by their distance first. *)
Words == (0..Size \cup {Unreached}) \X (Vertices \cup {Unreached})

LEMMA WordsAre ==
  ASSUME NEW a \in Words, NEW b \in Words
  PROVE  /\ a[1] \in 0..Size \cup {Unreached} /\ a[1] \in Nat /\ a = <<a[1], a[2]>>
         /\ Lowest(a, b) \in Words
         /\ IsLower(b, a) => b[1] <= a[1] /\ Lowest(a, b) = b
         /\ ~ IsLower(b, a) => a[1] <= b[1] /\ Lowest(a, b) = a
<1>1. a[1] \in 0..Size \cup {Unreached} /\ b[1] \in 0..Size \cup {Unreached} /\ a = <<a[1], a[2]>>
  BY DEF Words
<1>2. a[1] \in Nat /\ b[1] \in Nat
  BY <1>1, VertexConstants
<1> QED BY <1>1, <1>2 DEF IsLower, Lowest

WordsFit == program = "tree" => dist_and_parent \in [Vertices -> Words]

(* A word that is offered to vertex d. *)
LEMMA OfferedWord ==
  ASSUME program = "tree", WordsFit, program' = program, NEW d \in Vertices, NEW word \in Words,
         dist_and_parent' = [dist_and_parent EXCEPT ![d] = Lowest(@, word)]
  PROVE  /\ WordsFit'
         /\ \A v \in Vertices : v # d => dist_and_parent'[v] = dist_and_parent[v]
         /\ dist_and_parent'[d] = Lowest(dist_and_parent[d], word)
         /\ dist_and_parent[d] \in Words
         /\ Distance[d] = dist_and_parent[d][1]
         /\ IsLower(word, dist_and_parent[d]) =>
              /\ word[1] <= Distance[d] /\ dist_and_parent'[d] = word
              /\ Distance' = [v \in Vertices |-> IF v = d THEN word[1] ELSE Distance[v]]
         /\ ~ IsLower(word, dist_and_parent[d]) =>
              /\ Distance[d] <= word[1] /\ dist_and_parent' = dist_and_parent
              /\ Distance' = Distance
<1>1. dist_and_parent \in [Vertices -> Words] /\ dist_and_parent[d] \in Words
  BY DEF WordsFit
<1>2. /\ dist_and_parent' \in [Vertices -> Words]
      /\ dist_and_parent'[d] = Lowest(dist_and_parent[d], word)
      /\ \A v \in Vertices : v # d => dist_and_parent'[v] = dist_and_parent[v]
  <2>1. Lowest(dist_and_parent[d], word) \in Words
    BY <1>1, WordsAre
  <2> QED BY <1>1, <2>1
<1>3. /\ Distance = [v \in Vertices |-> dist_and_parent[v][1]]
      /\ Distance' = [v \in Vertices |-> dist_and_parent'[v][1]]
  BY DEF Distance, Dist
<1>4. CASE IsLower(word, dist_and_parent[d])
  <2>1. word[1] <= dist_and_parent[d][1] /\ dist_and_parent'[d] = word
    BY <1>1, <1>2, <1>4, WordsAre
  <2> QED BY <1>1, <1>2, <1>3, <1>4, <2>1 DEF WordsFit
<1>5. CASE ~ IsLower(word, dist_and_parent[d])
  <2>1. dist_and_parent[d][1] <= word[1] /\ dist_and_parent'[d] = dist_and_parent[d]
    BY <1>1, <1>2, <1>5, WordsAre
  <2>2. dist_and_parent' = dist_and_parent
    BY <1>1, <1>2, <2>1
  <2> QED BY <1>1, <1>2, <1>3, <1>5, <2>1, <2>2 DEF WordsFit
<1> QED BY <1>4, <1>5

LEMMA OfferFacts ==
  ASSUME RoundsAreSound, program = "tree", WordsFit, NEW t \in Tasks, NEW e, Offer(t, e)
  PROVE  /\ e \in graph /\ e[1] \in Vertices /\ e[2] \in Vertices /\ <<round, e[1]>> \in Words
         /\ round = Level + 1 /\ Distance[e[1]] = Level
         /\ Level \in 0..(Size - 1) /\ Level + 1 \in 1..Size /\ Level + 1 # Unreached
         /\ Hops[e[2]] \in Nat /\ Hops[e[2]] <= Level + 1
         /\ phase = "push" /\ PushFacts
         /\ UNCHANGED <<program, round, graph>>
<1>1. phase = "push" /\ e \in work /\ UNCHANGED <<program, round, graph>>
  BY DEF Offer, Look
<1>2. /\ PushFacts /\ graph \in Graphs /\ ControlTypeOK /\ Level \in 0..(Size - 1)
      /\ Level + 1 \in 1..Size /\ Level + 1 # Unreached
  BY <1>1, LevelStays
<1>3. e \in graph /\ e[1] \in Vertices /\ e[2] \in Vertices /\ e[1] \in Begun /\ round = Level + 1
  BY <1>1, <1>2, EdgesAre, SoundTypes DEF PushFacts, ControlTypeOK, Level
<1>4. Hops[e[1]] = Level /\ Hops[e[1]] # Unreached /\ Hops[e[2]] \in Nat
  BY <1>2, <1>3, SoundTypes, VertexConstants DEF Begun, Ring
<1>5. Hops[e[2]] <= Level + 1
  BY <1>2, <1>3, <1>4, HopsOver
<1>6. Distance[e[1]] = Level
  <2>1. e[1] \in Written
    BY <1>2, <1>3, <1>4 DEF Written
  <2> QED BY <1>2, <1>3, <1>4, <2>1 DEF PushFacts, PushDistances
<1>7. <<round, e[1]>> \in Words
  BY <1>2, <1>3 DEF Words
<1> QED BY <1>1, <1>2, <1>3, <1>4, <1>5, <1>6, <1>7

LEMMA OfferIsSound ==
  ASSUME RoundsAreSound, program = "tree", WordsFit, NEW t \in Tasks, NEW e, Offer(t, e)
  PROVE  RoundsAreSound'
<1> DEFINE word == <<round, e[1]>>
           lower == IsLower(word, dist_and_parent[e[2]])
<1>1. /\ Look(t, e, lower) /\ word[1] = round
      /\ dist_and_parent' = [dist_and_parent EXCEPT ![e[2]] = Lowest(@, word)]
  BY DEF Offer
<1>2. /\ e[2] \in Vertices /\ word \in Words /\ round = Level + 1
      /\ Level \in 0..(Size - 1) /\ Level + 1 # Unreached /\ Level + 1 \in 1..Size
      /\ Hops[e[2]] \in Nat /\ Hops[e[2]] <= Level + 1
      /\ PushFacts /\ program' = program
  BY OfferFacts
<1>3. Distance[e[2]] = IF e[2] \in Written THEN Hops[e[2]] ELSE Unreached
  BY <1>2 DEF PushFacts, PushDistances
<1> HIDE DEF word
<1>4. /\ lower => /\ round <= Distance[e[2]]
                  /\ Distance' = [v \in Vertices |-> IF v = e[2] THEN round ELSE Distance[v]]
      /\ ~ lower => Distance[e[2]] <= round /\ Distance' = Distance
  <2>1. /\ lower => /\ word[1] <= Distance[e[2]]
                    /\ Distance' = [v \in Vertices |-> IF v = e[2] THEN word[1] ELSE Distance[v]]
        /\ ~ lower => Distance[e[2]] <= word[1] /\ Distance' = Distance
    <3> DEFINE d == e[2]
    <3>1. d \in Vertices /\ dist_and_parent' = [dist_and_parent EXCEPT ![d] = Lowest(@, word)]
      BY <1>1, <1>2
    <3> HIDE DEF d
    <3>2. /\ IsLower(word, dist_and_parent[d]) =>
              /\ word[1] <= Distance[d]
              /\ Distance' = [v \in Vertices |-> IF v = d THEN word[1] ELSE Distance[v]]
          /\ ~ IsLower(word, dist_and_parent[d]) => Distance[d] <= word[1] /\ Distance' = Distance
      BY <1>2, <3>1, OfferedWord
    <3> QED BY <3>2 DEF d
  <2> QED BY <1>1, <2>1
<1>5. lower => e[2] \in Ring(Level + 1)
  <2> SUFFICES ASSUME lower, Hops[e[2]] <= Level PROVE FALSE
    BY <1>2 DEF Ring
  <2>1. e[2] \in Written
    BY <1>2 DEF Written
  <2> QED BY <1>2, <1>3, <1>4, <2>1
<1>6. ~ lower => Hops[e[2]] <= Level \/ e[2] \in Claimed
  <2> SUFFICES ASSUME ~ lower PROVE e[2] \in Written
    BY DEF Written
  <2>1. Distance[e[2]] # Unreached
    BY <1>2, <1>4, SoundTypes, VertexConstants
  <2> QED BY <1>3, <2>1
<1> HIDE DEF lower
<1> QED BY <1>1, <1>2, <1>4, <1>5, <1>6, LookIsSound

LEMMA ClaimIsSound ==
  ASSUME RoundsAreSound, NEW t \in Tasks, Claim(t), Distance' = Distance
  PROVE  RoundsAreSound'
<1> DEFINE d == job[t].s
<1>1. /\ job[t].at = "claim" /\ active' = active \ {d} /\ next_frontier' = next_frontier \cup {d}
      /\ job' = [job EXCEPT ![t] = NoJob]
      /\ UNCHANGED <<program, frontier, mode, stride, round, phase, work, pending, graph>>
  BY DEF Claim
<1>2. ControlTypeOK /\ graph' = graph
  BY <1>1 DEF RoundsAreSound
<1>3. d \in Vertices /\ d \in Claims
  BY <1>1, <1>2, JobFacts DEF Claims
<1>4. phase = "push"
  <2>1. ~ Resting
    BY <1>1, JobFacts DEF Resting, NoJob
  <2>2. phase # "search"
    BY <1>1 DEF RoundsAreSound, WindowIs, WindowFacts, JobsFit
  <2> QED BY <1>2, <2>1, <2>2 DEF RoundsAreSound, TopIs, EndIs, AtRest, ControlTypeOK
<1>5. /\ Level' = Level /\ Hops' = Hops /\ Ring(Level)' = Ring(Level)
      /\ Ring(Level + 1)' = Ring(Level + 1) /\ Beyond(Level)' = Beyond(Level)
      /\ PushFacts /\ Level \in 0..(Size - 1)
  BY <1>1, <1>4, LevelStays
<1> HIDE DEF d
<1>6. /\ job' \in [Tasks -> Jobs'] /\ job'[t].at = "idle"
      /\ \A u \in Tasks : u # t => job'[u] = job[u]
  BY <1>1, <1>2, NoJobLeft
<1>7. ControlTypeOK'
  BY <1>1, <1>2, <1>3, <1>6 DEF ControlTypeOK
<1>8. Claimed' = Claimed
  <2>1. Claims' \subseteq Claims
    BY <1>6 DEF Claims
  <2>2. \A v \in Claims : v = d \/ v \in Claims'
    <3> SUFFICES ASSUME NEW u \in Tasks, job[u].at = "claim", job[u].s # d
                 PROVE  job[u].s \in Claims'
      BY DEF Claims
    <3>1. u # t
      BY DEF d
    <3> QED BY <1>6, <3>1 DEF Claims
  <2> QED BY <1>1, <1>3, <2>1, <2>2 DEF Claimed
<1>9. Begun' = Begun /\ Written' = Written
  <2>1. Begun' = Begun
    BY <1>1, <1>5 DEF Begun
  <2> QED BY <1>1, <1>5, <1>8, <2>1 DEF Written
<1>10. DistancesFit'
  BY <1>1, FitStays, SoundTypes
<1>11. PushFacts'
  <2>1. PushDistances'
    BY <1>5, <1>9 DEF PushFacts, PushDistances
  <2>2. active' = (Beyond(Level) \ next_frontier)'
    BY <1>1, <1>5 DEF PushFacts
  <2>3. \A u \in Tasks : job'[u].at \in {"idle", "claim"}
    BY <1>5, <1>6 DEF PushFacts
  <2>4. \A e \in graph' : e[1] \in Begun' /\ e[2] \in Ring(Level + 1)' => e \in work' \/ e[2] \in Claimed'
    BY <1>1, <1>5, <1>8, <1>9 DEF PushFacts
  <2>5. /\ frontier' \subseteq Ring(Level)' /\ (\A e \in work' : e[1] \in Begun')
        /\ Claimed' \subseteq Ring(Level + 1)'
    BY <1>1, <1>5, <1>8, <1>9 DEF PushFacts
  <2>6. mode' = 0 /\ \A v \in Vertices : pending'[v] = 0
    BY <1>1, <1>5 DEF PushFacts
  <2> QED BY <1>5, <2>1, <2>2, <2>3, <2>4, <2>5, <2>6 DEF PushFacts
<1> QED BY <1>1, <1>4, <1>7, <1>10, <1>11, PushIsSound

(* All is pushed: what was claimed is the next ring. *)
LEMMA PushedIsSound ==
  ASSUME RoundsAreSound, Pushed, Distance' = Distance
  PROVE  RoundsAreSound'
<1>1. /\ phase = "push" /\ frontier = {} /\ work = {} /\ Resting
      /\ phase' = "top" /\ round' = round + 1
      /\ UNCHANGED <<program, active, frontier, next_frontier, mode, stride, work, pending, job,
                     graph>>
  BY DEF Pushed
<1>2. /\ PushFacts /\ graph \in Graphs /\ ControlTypeOK /\ Level \in 0..(Size - 1)
      /\ Level + 1 \in 1..Size /\ Level + 1 # Unreached
  <2>1. PushFacts /\ graph \in Graphs /\ ControlTypeOK
    BY <1>1, SoundTypes DEF RoundsAreSound, PushIs
  <2> QED BY <2>1, VertexConstants DEF PushFacts
<1>3. Begun = Ring(Level) /\ Claimed = next_frontier
  <2>1. \A t \in Tasks : job[t].at = "idle"
    BY <1>1, AllIdle
  <2> QED BY <1>1, <2>1 DEF Begun, Claimed, Claims
<1>4. next_frontier = Ring(Level + 1)
  <2>1. ASSUME NEW v \in Ring(Level + 1) PROVE v \in next_frontier
    <3>1. PICK e \in graph : e[2] = v /\ e[1] \in Ring(Level)
      BY <1>2, RingBefore
    <3> QED BY <1>1, <1>2, <1>3, <2>1, <3>1 DEF PushFacts
  <2> QED BY <1>2, <1>3, <2>1 DEF PushFacts
<1>5. active = Beyond(Level + 1)
  <2>1. \A v \in Vertices : Hops[v] > Level + 1 <=> Hops[v] > Level /\ v \notin Ring(Level + 1)
    BY <1>2, SoundTypes, VertexConstants DEF Ring
  <2> QED BY <1>2, <1>4, <2>1 DEF PushFacts, Beyond
<1>6. Level' = Level + 1 /\ Hops' = Hops /\ round' \in Nat /\ Settled' = round /\ mode = 0
  BY <1>1, <1>2, HopsStay, SoundTypes DEF Level, Settled, PushFacts
<1>7. Exact(Settled)'
  <2> SUFFICES ASSUME NEW v \in Vertices
               PROVE  Distance[v] = IF Hops[v] <= round THEN Hops[v] ELSE Unreached
    BY <1>6 DEF Exact
  <2>1. Hops[v] \in Nat
    BY SoundTypes, VertexConstants
  <2>2. v \in Written <=> Hops[v] <= round
    <3>1. /\ v \in Ring(Level) <=> Hops[v] = Level
          /\ v \in Ring(Level + 1) <=> Hops[v] = Level + 1
      BY <1>2, VertexConstants DEF Ring
    <3>2. CASE program = "search"
      BY <1>2, <1>3, <2>1, <3>1, <3>2, SoundTypes DEF Written, Level
    <3>3. CASE program # "search"
      BY <1>2, <1>3, <1>4, <2>1, <3>1, <3>3, SoundTypes DEF Written, Level
    <3> QED BY <3>2, <3>3
  <2> QED BY <1>2, <2>2 DEF PushFacts, PushDistances
<1>8. (next_frontier = Ring(Level) /\ active = Beyond(Level) /\ Level \in Nat)'
  BY <1>1, <1>2, <1>4, <1>5, <1>6 DEF Ring, Beyond
<1>9. AtRest'
  BY <1>1, <1>2 DEF AtRest, Resting, PushFacts
<1>10. ControlTypeOK'
  BY <1>1, <1>2, <1>6, JobsStay DEF ControlTypeOK
<1>11. DistancesFit'
  BY <1>1, FitStays, SoundTypes
<1>12. TopIs'
  BY <1>1, <1>6, <1>7, <1>8, <1>9 DEF TopIs
<1> QED BY <1>1, <1>10, <1>11, <1>12 DEF RoundsAreSound, PushIs, WindowIs, EndIs

-----------------------------------------------------------------------------
(* Local searches: distances fall, and what was still to be done then is so *)
(* unless the step has done it.                                             *)
LEMMA WindowIsSound ==
  ASSUME phase' = "search", ControlTypeOK', DistancesFit', WindowFacts'
  PROVE  RoundsAreSound'
BY DEF RoundsAreSound, TopIs, PushIs, EndIs, WindowIs

LEMMA SearchFacts ==
  ASSUME RoundsAreSound, phase = "search"
  PROVE  /\ WindowFacts /\ ControlTypeOK /\ graph \in Graphs
         /\ round \in Nat /\ WindowEnd \in Nat /\ round < WindowEnd
         /\ Reached \in SUBSET Vertices /\ IsFiniteSet(Reached)
         /\ Cardinality(Reached) \in Nat /\ Cardinality(Reached) <= Size
         /\ \A v \in Vertices : /\ Distance[v] \in Nat /\ Distance[v] <= Unreached
                                /\ v \in Reached <=> Distance[v] # Unreached
<1>1. WindowFacts /\ ControlTypeOK /\ graph \in Graphs /\ round \in Nat /\ stride \in Nat \ {0}
  BY SoundTypes DEF RoundsAreSound, WindowIs
<1>2. WindowEnd \in Nat /\ round < WindowEnd
  BY <1>1 DEF WindowEnd
<1>3. Reached \in SUBSET Vertices
  BY DEF Reached
<1>4. /\ IsFiniteSet(Reached) /\ Cardinality(Reached) \in Nat
      /\ Cardinality(Reached) <= Cardinality(Vertices)
  BY <1>3, VertexConstants, FS_Subset, FS_CardinalityType, Zenon
<1>5. \A v \in Vertices : /\ Distance[v] \in Nat /\ Distance[v] <= Unreached
                          /\ v \in Reached <=> Distance[v] # Unreached
  BY SoundTypes, VertexConstants DEF Reached
<1> QED BY <1>1, <1>2, <1>3, <1>4, <1>5 DEF Size

LEMMA InSearch ==
  ASSUME RoundsAreSound, \/ \E v \in Vertices : pending[v] > 0
                         \/ \E t \in Tasks : job[t].at \in {"pull", "push"}
  PROVE  phase = "search"
<1>1. ControlTypeOK
  BY DEF RoundsAreSound
<1>2. AtRest => ~ (\E v \in Vertices : pending[v] > 0)
                  /\ ~ \E t \in Tasks : job[t].at \in {"pull", "push"}
  BY AllIdle DEF AtRest
<1>3. phase # "push"
  BY DEF RoundsAreSound, PushIs, PushFacts
<1> QED BY <1>1, <1>2, <1>3 DEF RoundsAreSound, TopIs, EndIs, ControlTypeOK

Falls ==
  /\ UNCHANGED <<graph, round, stride>>
  /\ \A v \in Vertices : Distance'[v] \in Nat /\ Distance'[v] <= Distance[v]

LEMMA FallsTo ==
  ASSUME RoundsAreSound, phase = "search", Falls
  PROVE  /\ Hops' = Hops /\ WindowEnd' = WindowEnd /\ round' = round
         /\ Reached \subseteq Reached' /\ Reached' \in SUBSET Vertices
         /\ IsFiniteSet(Reached') /\ Cardinality(Reached') \in Nat
         /\ Cardinality(Reached) <= Cardinality(Reached') /\ Cardinality(Reached') <= Size
         /\ Cardinality(Reached)' = Cardinality(Reached')
<1>1. Hops' = Hops /\ WindowEnd' = WindowEnd /\ round' = round
  BY HopsStay DEF Falls, WindowEnd
<1>2. Reached \subseteq Reached' /\ Reached' \in SUBSET Vertices
  <2>1. \A v \in Vertices : v \in Reached => Distance'[v] # Unreached
    BY SearchFacts, VertexConstants DEF Falls
  <2> QED BY <2>1 DEF Reached
<1>3. /\ IsFiniteSet(Reached') /\ Cardinality(Reached') \in Nat
      /\ Cardinality(Reached') <= Cardinality(Vertices)
  BY <1>2, VertexConstants, FS_Subset, FS_CardinalityType, Zenon
<1>4. Cardinality(Reached) <= Cardinality(Reached')
  BY <1>2, <1>3, FS_Subset, Zenon
<1> QED BY <1>1, <1>2, <1>3, <1>4 DEF Size

LEMMA OffersKept ==
  ASSUME RoundsAreSound, phase = "search", Falls, NEW t \in Tasks, job'[t] = job[t],
         job[t] \in Traversals, NEW c \in Int, NEW c2 \in Int, c <= c2, OffersBelow(t, c)
  PROVE  job'[t].value < c2 \/ \E e \in job'[t].edges : Distance'[e[1]] < c2
<1>1. job[t].value \in Nat /\ job[t].edges \subseteq graph
  BY VertexConstants DEF Traversals
<1>2. CASE job[t].value < c
  BY <1>1, <1>2
<1>3. ASSUME NEW e \in job[t].edges, Distance[e[1]] < c
      PROVE  Distance'[e[1]] < c2
  <2>1. e[1] \in Vertices
    BY <1>1, SearchFacts, EdgesAre
  <2> QED BY <1>3, <2>1, SearchFacts DEF Falls
<1> QED BY <1>2, <1>3 DEF OffersBelow

(* A task that the step is not of. *)
LEMMA OthersFit ==
  ASSUME RoundsAreSound, phase = "search", Falls, NEW t \in Tasks, job'[t] = job[t]
  PROVE  /\ job'[t].at # "claim"
         /\ job'[t].at = "pull" => IsPulling(t)'
         /\ job'[t].at = "push" => IsPushing(t)'
<1>1. /\ job[t].at # "claim"
      /\ job[t].at = "pull" => IsPulling(t)
      /\ job[t].at = "push" => IsPushing(t)
  BY SearchFacts DEF WindowFacts, JobsFit
<1>2. job[t].at \in {"pull", "push"} => job[t] \in Traversals
  BY SearchFacts, JobFacts
<1>3. /\ Hops' = Hops /\ WindowEnd' = WindowEnd /\ graph' = graph
      /\ Reached \subseteq Reached' /\ WindowEnd \in Nat
      /\ Cardinality(Reached)' \in Nat /\ Cardinality(Reached) <= Cardinality(Reached)'
      /\ Cardinality(Reached) \in Nat
  BY FallsTo, SearchFacts DEF Falls
<1>4. ASSUME job[t].at = "pull" PROVE IsPulling(t)'
  <2>1. IsPulling(t) /\ job[t] \in Traversals
    BY <1>1, <1>2, <1>4
  <2>2. /\ job[t].s \in Reached \ {source} /\ Distance[job[t].s] < WindowEnd
        /\ job[t].edges \subseteq InEdges(job[t].s) /\ job[t].value \in Nat /\ job[t].s \in Vertices
    BY <2>1, VertexConstants DEF IsPulling, Traversals
  <2>3. job'[t].s \in Reached' \ {source} /\ Distance'[job'[t].s] < WindowEnd'
    BY <1>3, <2>2, SearchFacts DEF Falls
  <2>4. OffersBelow(t, WindowEnd - 1)'
    <3>1. OffersBelow(t, WindowEnd - 1)
      BY <2>1 DEF IsPulling
    <3>2. job'[t].value < WindowEnd - 1 \/ \E e \in job'[t].edges : Distance'[e[1]] < WindowEnd - 1
      <4> DEFINE c == WindowEnd - 1
      <4>1. c \in Int /\ c <= c /\ OffersBelow(t, c)
        BY <1>3, <3>1
      <4> HIDE DEF c
      <4>2. job'[t].value < c \/ \E e \in job'[t].edges : Distance'[e[1]] < c
        BY <2>1, <4>1, OffersKept
      <4> QED BY <4>2 DEF c
    <3> QED BY <1>3, <3>2 DEF OffersBelow
  <2>5. OffersBelow(t, Cardinality(Reached) - 1)'
    <3> DEFINE c == Cardinality(Reached) - 1
               c2 == Cardinality(Reached)' - 1
    <3>1. OffersBelow(t, c) /\ c \in Int /\ c2 \in Int /\ c <= c2
      BY <1>3, <2>1 DEF IsPulling
    <3> HIDE DEF c, c2
    <3>2. job'[t].value < c2 \/ \E e \in job'[t].edges : Distance'[e[1]] < c2
      BY <2>1, <3>1, OffersKept
    <3> QED BY <3>2 DEF OffersBelow, c2
  <2>6. job'[t].value # Unreached => \E e \in graph' : e[2] = job'[t].s /\ Distance'[e[1]] <= job'[t].value
    <3> SUFFICES ASSUME job[t].value # Unreached
                 PROVE  \E e \in graph : e[2] = job[t].s /\ Distance'[e[1]] <= job[t].value
      BY <1>3
    <3>1. PICK e \in graph : e[2] = job[t].s /\ Distance[e[1]] <= job[t].value
      BY <2>1 DEF IsPulling
    <3>2. e[1] \in Vertices
      BY SearchFacts, EdgesAre
    <3> QED BY <2>2, <3>1, <3>2, SearchFacts DEF Falls
  <2>7. job'[t].edges \subseteq InEdges(job[t].s)'
    BY <1>3, <2>2 DEF InEdges
  <2> QED BY <2>3, <2>4, <2>5, <2>6, <2>7 DEF IsPulling
<1>5. ASSUME job[t].at = "push" PROVE IsPushing(t)'
  <2>1. IsPushing(t) /\ job[t] \in Traversals
    BY <1>1, <1>2, <1>5
  <2>2. job[t].value \in Nat /\ job[t].s \in Vertices
    BY <2>1, VertexConstants DEF Traversals
  <2>3. job'[t].s \in Reached' \ {source} /\ Distance'[job'[t].s] <= job'[t].value
    BY <1>3, <2>1, <2>2, SearchFacts DEF Falls, IsPushing
  <2>4. job'[t].edges \subseteq OutEdges(job[t].s)'
    BY <1>3, <2>1 DEF OutEdges, IsPushing
  <2>5. job'[t].value < WindowEnd' /\ job'[t].value < Cardinality(Reached)'
    BY <1>3, <2>1, <2>2 DEF IsPushing
  <2> QED BY <2>3, <2>4, <2>5 DEF IsPushing
<1> QED BY <1>1, <1>4, <1>5

(* The distance of at most one vertex falls, to one more than that of another. *)
LEMMA VerticesFit ==
  ASSUME RoundsAreSound, phase = "search", Falls, DistancesFit',
         next_frontier \subseteq next_frontier',
         NEW x \in Vertices, \A v \in Vertices : v # x => Distance'[v] = Distance[v],
         Distance'[x] # Distance[x] =>
           /\ x # source /\ Distance'[x] <= WindowEnd /\ Distance'[x] <= Cardinality(Reached)
           /\ Distance'[x] = WindowEnd => x \in next_frontier'
           /\ \E e \in graph : e[2] = x /\ Distance'[e[1]] < Distance'[x]
  PROVE  NearIsExact' /\ InWindow' /\ HasNearer'
<1>1. /\ NearIsExact /\ InWindow /\ HasNearer
      /\ \A v \in Vertices : Hops[v] \in Nat /\ Distance[v] \in Nat /\ Distance'[v] \in Nat
      /\ round \in Nat /\ WindowEnd \in Nat /\ Cardinality(Reached) \in Nat
      /\ \A v \in Vertices : v \in Reached <=> Distance[v] # Unreached
  BY SearchFacts, SoundTypes, VertexConstants DEF WindowFacts, Falls
<1>2. /\ Hops' = Hops /\ WindowEnd' = WindowEnd /\ round' = round /\ graph' = graph
      /\ Cardinality(Reached)' \in Nat /\ Cardinality(Reached) <= Cardinality(Reached)'
      /\ Reached \subseteq Reached'
  BY FallsTo DEF Falls
<1>3. NearIsExact'
  <2>1. \A v \in Vertices : Distance'[v] >= Hops[v] /\ Distance'[v] <= Distance[v]
    BY <1>2 DEF DistancesFit, Falls
  <2> QED BY <1>1, <1>2, <2>1 DEF NearIsExact
<1>4. Distance'[x] # Distance[x] => Distance'[x] < Cardinality(Reached)'
  <2> SUFFICES ASSUME Distance'[x] # Distance[x] PROVE Distance'[x] < Cardinality(Reached)'
    OBVIOUS
  <2>1. CASE x \in Reached
    <3>1. Distance'[x] < Distance[x] /\ Distance[x] < Cardinality(Reached)
      BY <1>1, <2>1 DEF Falls, InWindow
    <3> QED BY <1>1, <1>2, <3>1
  <2>2. CASE x \notin Reached
    <3>1. x \in Reached'
      BY <1>1, <2>2 DEF Reached
    <3>2. Reached' = Reached \cup {x}
      BY <1>2, <3>1 DEF Reached
    <3>3. Cardinality(Reached \cup {x}) = Cardinality(Reached) + 1
      BY <2>2, SearchFacts, FS_AddElement
    <3>4. Cardinality(Reached)' = Cardinality(Reached \cup {x})
      BY <3>2, FallsTo
    <3> QED BY <1>1, <3>3, <3>4
  <2> QED BY <2>1, <2>2
<1>5. InWindow'
  <2> SUFFICES ASSUME NEW v \in Reached'
               PROVE  /\ Distance'[v] <= WindowEnd
                      /\ Distance'[v] = WindowEnd => v \in next_frontier'
                      /\ Distance'[v] < Cardinality(Reached)'
    BY <1>2 DEF InWindow
  <2>1. v \in Vertices /\ Distance'[v] # Unreached
    BY DEF Reached
  <2>2. CASE Distance'[v] = Distance[v]
    BY <1>1, <1>2, <2>1, <2>2 DEF InWindow
  <2> QED BY <1>1, <1>4, <2>1, <2>2
<1>6. HasNearer'
  <2> SUFFICES ASSUME NEW v \in Reached', v # source
               PROVE  \E e \in graph : e[2] = v /\ Distance'[e[1]] < Distance'[v]
    BY <1>2 DEF HasNearer
  <2>1. v \in Vertices /\ Distance'[v] # Unreached
    BY DEF Reached
  <2>2. CASE Distance'[v] = Distance[v]
    <3>1. PICK e \in graph : e[2] = v /\ Distance[e[1]] < Distance[v]
      BY <1>1, <2>1, <2>2 DEF HasNearer
    <3>2. e[1] \in Vertices
      BY SearchFacts, EdgesAre
    <3> QED BY <1>1, <2>1, <2>2, <3>1, <3>2 DEF Falls
  <2> QED BY <2>1, <2>2
<1> QED BY <1>3, <1>5, <1>6

(* What is owed is still owed, or the step has made it good. *)
LEMMA OwedKept ==
  ASSUME RoundsAreSound, phase = "search", Falls, NEW e \in graph, e[1] \in Vertices,
         Distance'[e[1]] = Distance[e[1]], frontier' = frontier,
         \A v \in Vertices : pending[v] \in Nat /\ pending'[v] \in Nat /\ pending[v] <= pending'[v],
         NEW t \in Tasks, \A u \in Tasks : u # t => job'[u] = job[u],
         NEW Good,
         job[t].at = "pull" /\ job[t].s = e[1] /\ OffersBelow(t, Distance[e[1]]) =>
           Owed(e)' \/ Good,
         job[t].at = "push" /\ e \in job[t].edges /\ job[t].value <= Distance[e[1]] =>
           Owed(e)' \/ Good,
         Owed(e)
  PROVE  Owed(e)' \/ Good
<1>1. round' = round
  BY DEF Falls
<1>2. CASE e[1] \in frontier /\ Distance[e[1]] = round
  BY <1>1, <1>2 DEF Owed
<1>3. CASE pending[e[1]] > 0
  BY <1>3 DEF Owed
<1>4. ASSUME NEW u \in Tasks, job[u].at = "pull", job[u].s = e[1], OffersBelow(u, Distance[e[1]])
      PROVE  Owed(e)' \/ Good
  <2>1. CASE u = t
    BY <1>4, <2>1
  <2>2. CASE u # t
    <3> DEFINE c == Distance[e[1]]
    <3>1. job'[u] = job[u] /\ job[u] \in Traversals /\ c \in Int /\ c <= c /\ c = Distance'[e[1]]
      BY <1>4, <2>2, SearchFacts, JobFacts
    <3>2. OffersBelow(u, c)
      BY <1>4
    <3> HIDE DEF c
    <3>3. job'[u].value < c \/ \E f \in job'[u].edges : Distance'[f[1]] < c
      BY <3>1, <3>2, OffersKept
    <3>4. OffersBelow(u, Distance[e[1]])'
      BY <3>1, <3>3 DEF OffersBelow
    <3> QED BY <1>4, <3>1, <3>4 DEF Owed
  <2> QED BY <2>1, <2>2
<1>5. ASSUME NEW u \in Tasks, job[u].at = "push", e \in job[u].edges, job[u].value <= Distance[e[1]]
      PROVE  Owed(e)' \/ Good
  <2>1. CASE u = t
    BY <1>5, <2>1
  <2>2. CASE u # t
    BY <1>5, <2>2 DEF Owed
  <2> QED BY <2>1, <2>2
<1> QED BY <1>2, <1>3, <1>4, <1>5 DEF Owed

(* Steps that change no distance. *)
LEMMA SameFits ==
  ASSUME RoundsAreSound, phase = "search", UNCHANGED <<graph, round, stride>>,
         Distance' = Distance, next_frontier \subseteq next_frontier'
  PROVE  Falls /\ DistancesFit' /\ NearIsExact' /\ InWindow' /\ HasNearer' /\ Reached' = Reached
<1>1. Falls
  BY SearchFacts DEF Falls
<1>2. DistancesFit'
  BY FitStays, SoundTypes
<1>3. source \in Vertices
  BY VertexConstants
<1>4. NearIsExact' /\ InWindow' /\ HasNearer'
  BY <1>1, <1>2, <1>3, VerticesFit
<1> QED BY <1>1, <1>2, <1>4 DEF Reached

LEMMA ConsumeIsSound ==
  ASSUME RoundsAreSound, NEW s, Consume(s, Distance[s]), Distance' = Distance
  PROVE  RoundsAreSound'
<1>1. /\ phase = "search" /\ phase' = "search" /\ s \in frontier /\ frontier' = frontier \ {s}
      /\ pending' = IF Distance[s] = round THEN [pending EXCEPT ![s] = @ + 1] ELSE pending
      /\ UNCHANGED <<program, active, next_frontier, mode, stride, round, work, job, graph>>
  BY DEF Consume
<1>2. /\ WindowFacts /\ ControlTypeOK /\ WindowEnd \in Nat /\ round \in Nat /\ round < WindowEnd
  BY <1>1, SearchFacts
<1>3. Falls /\ DistancesFit' /\ NearIsExact' /\ InWindow' /\ HasNearer' /\ Reached' = Reached
  BY <1>1, SameFits
<1>4. WindowEnd' = WindowEnd
  BY <1>1 DEF WindowEnd
<1>5. s \in Reached /\ s \in Vertices /\ pending \in [Vertices -> Nat]
  BY <1>1, <1>2 DEF WindowFacts, Reached, ControlTypeOK
<1>6. /\ pending' \in [Vertices -> Nat]
      /\ \A v \in Vertices : pending[v] <= pending'[v] /\ (v # s => pending'[v] = pending[v])
      /\ Distance[s] = round => pending'[s] > 0
      /\ Distance[s] # round => pending' = pending
  <2>1. CASE Distance[s] = round
    BY <1>1, <1>5, <2>1
  <2>2. CASE Distance[s] # round
    BY <1>1, <1>5, <2>2
  <2> QED BY <2>1, <2>2
<1>7. ControlTypeOK'
  BY <1>1, <1>2, <1>6, JobsStay DEF ControlTypeOK
<1>8. PendingFit'
  <2> SUFFICES ASSUME NEW v \in Vertices, pending'[v] > 0
               PROVE  v \in Reached \ {source} /\ Distance[v] < WindowEnd
    BY <1>3, <1>4 DEF PendingFit
  <2>1. CASE pending[v] > 0
    BY <1>2, <2>1 DEF WindowFacts, PendingFit
  <2>2. CASE ~ pending[v] > 0
    <3>1. v = s /\ Distance[s] = round
      BY <1>6, <2>2
    <3>2. Distance[source] = 0 /\ round >= 1
      BY <1>1, <1>2, HopsOfSource, VertexConstants, SearchFacts DEF WindowFacts, NearIsExact
    <3> QED BY <1>2, <1>5, <3>1, <3>2
  <2> QED BY <2>1, <2>2
<1>9. JobsFit'
  BY <1>1, <1>3, OthersFit DEF JobsFit
<1>10. AllOwed'
  <2> SUFFICES ASSUME NEW e \in graph, e[1] \in Reached, Distance[e[1]] \in round..(WindowEnd - 1)
               PROVE  Owed(e)' \/ Distance[e[2]] <= Distance[e[1]] + 1
    BY <1>1, <1>3, <1>4 DEF AllOwed
  <2>1. Owed(e) \/ Distance[e[2]] <= Distance[e[1]] + 1
    BY <1>2 DEF WindowFacts, AllOwed
  <2>2. ASSUME Owed(e) PROVE Owed(e)'
    <3>1. e[1] \in Vertices
      BY DEF Reached
    <3>2. CASE e[1] \in frontier /\ Distance[e[1]] = round
      <4>1. CASE e[1] = s
        BY <1>6, <3>2, <4>1 DEF Owed
      <4>2. CASE e[1] # s
        BY <1>1, <3>2, <4>2 DEF Owed
      <4> QED BY <4>1, <4>2
    <3>3. CASE pending[e[1]] > 0
      <4>1. pending[e[1]] \in Nat /\ pending'[e[1]] \in Nat /\ pending[e[1]] <= pending'[e[1]]
        BY <1>5, <1>6, <3>1
      <4> QED BY <3>3, <4>1 DEF Owed
    <3>4. CASE \E t \in Tasks : job[t].at = "pull" /\ job[t].s = e[1] /\ OffersBelow(t, Distance[e[1]])
      BY <1>1, <3>4 DEF Owed, OffersBelow
    <3>5. CASE \E t \in Tasks : job[t].at = "push" /\ e \in job[t].edges /\ job[t].value <= Distance[e[1]]
      BY <1>1, <3>5 DEF Owed
    <3> QED BY <2>2, <3>2, <3>3, <3>4, <3>5 DEF Owed
  <2> QED BY <2>1, <2>2
<1>11. WindowFacts'
  <2>1. (mode >= 5 /\ round >= 1 /\ work = {} /\ frontier \cup next_frontier \subseteq Reached)'
    BY <1>1, <1>2, <1>3 DEF WindowFacts
  <2> QED BY <1>3, <1>8, <1>9, <1>10, <2>1 DEF WindowFacts
<1> QED BY <1>1, <1>3, <1>7, <1>11, WindowIsSound

LEMMA PopTopIsSound ==
  ASSUME RoundsAreSound, NEW t \in Tasks, NEW s \in Vertices, PopTop(t, s), Distance' = Distance
  PROVE  RoundsAreSound'
<1>1. UNCHANGED <<program, active, frontier, next_frontier, mode, stride, round, phase, work, graph>>
  BY DEF PopTop
<1>2. ControlTypeOK
  BY DEF RoundsAreSound
<1>3. /\ job' \in [Tasks -> Jobs'] /\ pending' \in [Vertices -> Nat]
      /\ job'[t].at = "pull" /\ job'[t].s = s /\ job'[t].edges = InEdges(s)
      /\ job'[t].value = Unreached /\ job'[t].parent = Unreached
      /\ \A u \in Tasks : u # t => job'[u] = job[u]
      /\ \A v \in Vertices : v # s => pending'[v] = pending[v]
      /\ pending[s] > 0 /\ job[t].at = "idle"
  BY <1>2, PopTopDoes
<1>4. phase = "search"
  BY <1>3, InSearch
<1>5. /\ WindowFacts /\ WindowEnd \in Nat /\ Cardinality(Reached) \in Nat /\ graph \in Graphs
      /\ \A v \in Vertices : Distance[v] \in Nat
  BY <1>4, SearchFacts
<1>6. Falls /\ DistancesFit' /\ NearIsExact' /\ InWindow' /\ HasNearer' /\ Reached' = Reached
  BY <1>1, <1>4, SameFits
<1>7. WindowEnd' = WindowEnd /\ Cardinality(Reached)' = Cardinality(Reached)
  BY <1>1, <1>4, <1>6, FallsTo DEF WindowEnd
<1>8. s \in Reached \ {source} /\ Distance[s] < WindowEnd /\ Distance[s] < Cardinality(Reached)
  BY <1>3, <1>5 DEF WindowFacts, PendingFit, InWindow
<1>9. PICK e \in graph : e[2] = s /\ Distance[e[1]] < Distance[s]
  BY <1>5, <1>8 DEF WindowFacts, HasNearer
<1>10. e \in InEdges(s) /\ e[1] \in Vertices
  BY <1>2, <1>9, EdgesAre DEF InEdges
<1>11. ControlTypeOK'
  BY <1>1, <1>2, <1>3 DEF ControlTypeOK
<1>12. PendingFit'
  <2>1. \A v \in Vertices : pending'[v] > 0 => v = s \/ pending[v] > 0
    BY <1>3
  <2> QED BY <1>5, <1>6, <1>7, <1>8, <2>1 DEF WindowFacts, PendingFit
<1>13. IsPulling(t)'
  <2>1. Distance[e[1]] < WindowEnd - 1 /\ Distance[e[1]] < Cardinality(Reached) - 1
    BY <1>5, <1>8, <1>9, <1>10
  <2>2. OffersBelow(t, WindowEnd - 1)' /\ OffersBelow(t, Cardinality(Reached) - 1)'
    BY <1>3, <1>7, <1>10, <2>1 DEF OffersBelow
  <2>3. InEdges(s)' = InEdges(s)
    BY <1>1 DEF InEdges
  <2>4. job'[t].s \in Reached' \ {source} /\ Distance'[job'[t].s] < WindowEnd'
    BY <1>3, <1>6, <1>7, <1>8
  <2> QED BY <1>3, <2>2, <2>3, <2>4 DEF IsPulling
<1>14. JobsFit'
  <2>1. ASSUME NEW u \in Tasks, u # t
        PROVE  /\ job'[u].at # "claim"
               /\ job'[u].at = "pull" => IsPulling(u)'
               /\ job'[u].at = "push" => IsPushing(u)'
    BY <1>3, <1>4, <1>6, <2>1, OthersFit
  <2> QED BY <1>3, <1>13, <2>1 DEF JobsFit
<1>15. AllOwed'
  <2> SUFFICES ASSUME NEW f \in graph, f[1] \in Reached, Distance[f[1]] \in round..(WindowEnd - 1)
               PROVE  Owed(f)' \/ Distance[f[2]] <= Distance[f[1]] + 1
    BY <1>1, <1>6, <1>7 DEF AllOwed
  <2>1. Owed(f) \/ Distance[f[2]] <= Distance[f[1]] + 1
    BY <1>5 DEF WindowFacts, AllOwed
  <2>2. CASE f[1] = s
    <3>1. OffersBelow(t, Distance[f[1]])'
      BY <1>3, <1>9, <1>10, <2>2 DEF OffersBelow
    <3> QED BY <1>3, <2>2, <3>1 DEF Owed
  <2>3. ASSUME f[1] # s, Owed(f) PROVE Owed(f)'
    <3>1. f[1] \in Vertices
      BY DEF Reached
    <3>2. CASE f[1] \in frontier /\ Distance[f[1]] = round
      BY <1>1, <3>2 DEF Owed
    <3>3. CASE pending[f[1]] > 0
      BY <1>3, <2>3, <3>1, <3>3 DEF Owed
    <3>4. CASE \E u \in Tasks : job[u].at = "pull" /\ job[u].s = f[1] /\ OffersBelow(u, Distance[f[1]])
      <4>1. PICK u \in Tasks : job[u].at = "pull" /\ job[u].s = f[1] /\ OffersBelow(u, Distance[f[1]])
        BY <3>4
      <4>2. job'[u] = job[u]
        BY <1>3, <4>1
      <4>3. OffersBelow(u, Distance[f[1]])'
        BY <4>1, <4>2 DEF OffersBelow
      <4> QED BY <4>1, <4>2, <4>3 DEF Owed
    <3>5. CASE \E u \in Tasks : job[u].at = "push" /\ f \in job[u].edges /\ job[u].value <= Distance[f[1]]
      <4>1. PICK u \in Tasks : job[u].at = "push" /\ f \in job[u].edges /\ job[u].value <= Distance[f[1]]
        BY <3>5
      <4>2. job'[u] = job[u]
        BY <1>3, <4>1
      <4> QED BY <4>1, <4>2 DEF Owed
    <3> QED BY <2>3, <3>2, <3>3, <3>4, <3>5 DEF Owed
  <2> QED BY <2>1, <2>2, <2>3
<1>16. WindowFacts'
  <2>1. (mode >= 5 /\ round >= 1 /\ work = {} /\ frontier \cup next_frontier \subseteq Reached)'
    BY <1>1, <1>5, <1>6 DEF WindowFacts
  <2> QED BY <1>6, <1>12, <1>14, <1>15, <2>1 DEF WindowFacts
<1> QED BY <1>1, <1>4, <1>6, <1>11, <1>16, WindowIsSound

(* Steps of one task that leave the frontiers alone, or add to them. *)
LEMMA TaskStep ==
  ASSUME RoundsAreSound, phase = "search", Falls, DistancesFit', NEW t \in Tasks,
         UNCHANGED <<program, active, frontier, mode, phase, work>>,
         NearIsExact' /\ InWindow' /\ HasNearer',
         next_frontier' \subseteq Reached', next_frontier \subseteq next_frontier',
         job' \in [Tasks -> Jobs'], \A u \in Tasks : u # t => job'[u] = job[u],
         job'[t].at # "claim", job'[t].at = "pull" => IsPulling(t)',
         job'[t].at = "push" => IsPushing(t)',
         pending' \in [Vertices -> Nat], PendingFit', AllOwed'
  PROVE  RoundsAreSound'
<1>1. WindowFacts /\ ControlTypeOK /\ Reached' \in SUBSET Vertices /\ Reached \subseteq Reached'
  BY SearchFacts, FallsTo
<1>2. UNCHANGED <<graph, round, stride>>
  BY DEF Falls
<1>3. ControlTypeOK'
  BY <1>1, <1>2 DEF ControlTypeOK
<1>4. JobsFit'
  <2>1. ASSUME NEW u \in Tasks, u # t
        PROVE  /\ job'[u].at # "claim"
               /\ job'[u].at = "pull" => IsPulling(u)'
               /\ job'[u].at = "push" => IsPushing(u)'
    BY <2>1, OthersFit
  <2> QED BY <2>1 DEF JobsFit
<1>5. (mode >= 5 /\ round >= 1 /\ work = {} /\ frontier \cup next_frontier \subseteq Reached)'
  BY <1>1, <1>2 DEF WindowFacts
<1>6. WindowFacts'
  BY <1>4, <1>5 DEF WindowFacts
<1> QED BY <1>3, <1>6, WindowIsSound

LEMMA PullIsSound ==
  ASSUME RoundsAreSound, NEW t \in Tasks, NEW e, NEW val \in 0..Unreached,
         NEW par \in Vertices \cup {Unreached}, Pull(t, e, val, par), Distance' = Distance,
         val <= job[t].value, val <= Distance[e[1]],
         val = job[t].value \/ val = Distance[e[1]]
  PROVE  RoundsAreSound'
<1>1. UNCHANGED <<program, active, frontier, next_frontier, mode, stride, round, phase, work,
                  pending, graph>>
  BY DEF Pull
<1>2. ControlTypeOK
  BY DEF RoundsAreSound
<1>3. /\ job' \in [Tasks -> Jobs']
      /\ job'[t].at = "pull" /\ job'[t].s = job[t].s /\ job'[t].edges = job[t].edges \ {e}
      /\ job'[t].value = val
      /\ \A u \in Tasks : u # t => job'[u] = job[u]
      /\ job[t].at = "pull" /\ e \in job[t].edges /\ job[t] \in Traversals
  BY <1>2, PullDoes
<1>4. phase = "search"
  BY <1>3, InSearch
<1>5. /\ WindowFacts /\ WindowEnd \in Nat /\ Cardinality(Reached) \in Nat /\ graph \in Graphs
      /\ \A v \in Vertices : Distance[v] \in Nat
  BY <1>4, SearchFacts
<1>6. Falls /\ DistancesFit' /\ NearIsExact' /\ InWindow' /\ HasNearer' /\ Reached' = Reached
  BY <1>1, <1>4, SameFits
<1>7. WindowEnd' = WindowEnd /\ Cardinality(Reached)' = Cardinality(Reached)
  BY <1>1, <1>4, <1>6, FallsTo DEF WindowEnd
<1>8. IsPulling(t) /\ job[t].value \in Nat /\ e \in graph /\ e[1] \in Vertices
  BY <1>2, <1>3, <1>5, EdgesAre, VertexConstants DEF WindowFacts, JobsFit, Traversals
<1>9. ASSUME NEW c \in Int, OffersBelow(t, c)
      PROVE  job'[t].value < c \/ \E f \in job'[t].edges : Distance'[f[1]] < c
  <2>1. CASE job[t].value < c
    BY <1>3, <1>8, <2>1
  <2>2. ASSUME NEW f \in job[t].edges, Distance[f[1]] < c
        PROVE  job'[t].value < c \/ \E g \in job'[t].edges : Distance'[g[1]] < c
    <3>1. CASE f = e
      BY <1>3, <1>5, <1>8, <2>2, <3>1
    <3>2. CASE f # e
      BY <1>3, <2>2, <3>2
    <3> QED BY <3>1, <3>2
  <2> QED BY <1>9, <2>1, <2>2 DEF OffersBelow
<1>10. IsPulling(t)'
  <2>1. job'[t].s \in Reached' \ {source} /\ Distance'[job'[t].s] < WindowEnd'
    BY <1>3, <1>6, <1>7, <1>8 DEF IsPulling
  <2>2. job'[t].edges \subseteq InEdges(job[t].s)'
    BY <1>1, <1>3, <1>8 DEF IsPulling, InEdges
  <2>3. OffersBelow(t, WindowEnd - 1)' /\ OffersBelow(t, Cardinality(Reached) - 1)'
    <3> DEFINE c == WindowEnd - 1
               c2 == Cardinality(Reached) - 1
    <3>1. OffersBelow(t, c) /\ OffersBelow(t, c2) /\ c \in Int /\ c2 \in Int
      BY <1>5, <1>8 DEF IsPulling
    <3>2. c = WindowEnd' - 1 /\ c2 = Cardinality(Reached)' - 1
      BY <1>7
    <3> HIDE DEF c, c2
    <3>3. /\ job'[t].value < c \/ \E f \in job'[t].edges : Distance'[f[1]] < c
          /\ job'[t].value < c2 \/ \E f \in job'[t].edges : Distance'[f[1]] < c2
      BY <1>9, <3>1
    <3> QED BY <3>2, <3>3 DEF OffersBelow
  <2>4. ASSUME val # Unreached
        PROVE  \E f \in graph : f[2] = job[t].s /\ Distance[f[1]] <= val
    <3>1. CASE val = job[t].value
      BY <1>8, <2>4, <3>1 DEF IsPulling
    <3>2. CASE val = Distance[e[1]]
      BY <1>3, <1>5, <1>8, <3>2 DEF IsPulling, InEdges
    <3> QED BY <3>1, <3>2
  <2> QED BY <1>1, <1>3, <2>1, <2>2, <2>3, <2>4 DEF IsPulling
<1>11. PendingFit' /\ pending \in [Vertices -> Nat]
  BY <1>1, <1>2, <1>5, <1>6, <1>7 DEF WindowFacts, PendingFit, ControlTypeOK
<1>12. AllOwed'
  <2> SUFFICES ASSUME NEW f \in graph, f[1] \in Reached, Distance[f[1]] \in round..(WindowEnd - 1)
               PROVE  Owed(f)' \/ Distance[f[2]] <= Distance[f[1]] + 1
    BY <1>1, <1>6, <1>7 DEF AllOwed
  <2>1. Owed(f) \/ Distance[f[2]] <= Distance[f[1]] + 1
    BY <1>5 DEF WindowFacts, AllOwed
  <2>2. f[1] \in Vertices
    BY DEF Reached
  <2>3. ASSUME job[t].s = f[1], OffersBelow(t, Distance[f[1]]) PROVE Owed(f)'
    <3> DEFINE c == Distance[f[1]]
    <3>1. c \in Int /\ OffersBelow(t, c) /\ c = Distance'[f[1]]
      BY <1>5, <2>2, <2>3
    <3> HIDE DEF c
    <3>2. job'[t].value < c \/ \E g \in job'[t].edges : Distance'[g[1]] < c
      BY <1>9, <3>1
    <3>3. OffersBelow(t, Distance[f[1]])'
      BY <3>1, <3>2 DEF OffersBelow
    <3> QED BY <1>3, <2>3, <3>3 DEF Owed
  <2>4. Owed(f) => Owed(f)' \/ FALSE
    <3>1. \A v \in Vertices : pending[v] \in Nat /\ pending'[v] \in Nat /\ pending[v] <= pending'[v]
      BY <1>1, <1>11
    <3> SUFFICES ASSUME Owed(f) PROVE Owed(f)' \/ FALSE
      OBVIOUS
    <3> QED BY <1>1, <1>3, <1>4, <1>6, <2>2, <2>3, <3>1, OwedKept
  <2> QED BY <2>1, <2>4
<1>13. next_frontier' \subseteq Reached' /\ pending' \in [Vertices -> Nat]
  BY <1>1, <1>5, <1>6, <1>11 DEF WindowFacts
<1> QED BY <1>1, <1>3, <1>4, <1>6, <1>10, <1>11, <1>12, <1>13, TaskStep

(* A task that has read all its edges has read a distance off one of them. *)
LEMMA LowerFacts ==
  ASSUME RoundsAreSound, NEW t \in Tasks, Lower(t)
  PROVE  /\ phase = "search" /\ job[t] \in Traversals /\ job[t].at = "pull" /\ IsPulling(t)
         /\ job[t].value \in Nat /\ job[t].value # Unreached
         /\ job[t].s \in Reached /\ job[t].s \in Vertices /\ job[t].s # source
         /\ Distance[job[t].s] < WindowEnd
         /\ DistFrom(job[t].value) = job[t].value + 1 /\ job[t].value + 1 \in 1..Size
         /\ job[t].value + 1 < WindowEnd /\ job[t].value + 1 < Cardinality(Reached)
<1>1. /\ job[t].at = "pull" /\ job[t].edges = {} /\ job[t] \in Traversals
  BY LowerDoes DEF RoundsAreSound
<1>2. phase = "search"
  BY <1>1, InSearch
<1>3. /\ WindowFacts /\ WindowEnd \in Nat /\ Cardinality(Reached) \in Nat
      /\ Cardinality(Reached) <= Size
  BY <1>2, SearchFacts
<1>4. IsPulling(t) /\ job[t].value \in Nat /\ job[t].s \in Vertices
  BY <1>1, <1>3, VertexConstants DEF WindowFacts, JobsFit, Traversals
<1>5. /\ job[t].value < WindowEnd - 1 /\ job[t].value < Cardinality(Reached) - 1
      /\ job[t].s \in Reached \ {source} /\ Distance[job[t].s] < WindowEnd
  BY <1>1, <1>4 DEF IsPulling, OffersBelow
<1> DEFINE d == job[t].value + 1
<1>6. /\ d \in 1..Size /\ d < WindowEnd /\ d < Cardinality(Reached) /\ d < Unreached
      /\ job[t].value # Unreached
  BY <1>3, <1>4, <1>5, VertexConstants
<1>7. d % (Unreached + 1) = d
  <2>1. Unreached + 1 \in Nat \ {0} /\ d < Unreached + 1 /\ d \in Nat
    BY <1>6, VertexConstants
  <2> HIDE DEF d
  <2>2. \A x \in Nat, n \in Nat \ {0} : x < n => x % n = x
    OBVIOUS
  <2> QED BY <2>1, <2>2
<1> QED BY <1>1, <1>2, <1>4, <1>5, <1>6, <1>7 DEF DistFrom

(* Vertex s takes the distance that it has read off its neighbours. *)
LEMMA LowerIsSound ==
  ASSUME RoundsAreSound, NEW t \in Tasks, Lower(t),
         Distance' = [v \in Vertices |->
                        IF v = job[t].s /\ DistFrom(job[t].value) < Distance[v]
                          THEN DistFrom(job[t].value) ELSE Distance[v]]
  PROVE  RoundsAreSound'
<1>1. UNCHANGED <<program, active, frontier, next_frontier, mode, stride, round, phase, work,
                  pending, graph>>
  BY DEF Lower
<1>2. ControlTypeOK
  BY DEF RoundsAreSound
<1> DEFINE s == job[t].s
           d == job[t].value + 1
<1>3. /\ job' \in [Tasks -> Jobs']
      /\ job'[t].at = "push" /\ job'[t].s = s /\ job'[t].edges = OutEdges(s)
      /\ job'[t].value = DistFrom(job[t].value)
      /\ \A u \in Tasks : u # t => job'[u] = job[u]
      /\ job[t].at = "pull" /\ job[t].edges = {} /\ job[t] \in Traversals
  BY <1>2, LowerDoes
<1>4. phase = "search"
  BY <1>3, InSearch
<1>5. /\ WindowFacts /\ WindowEnd \in Nat /\ Cardinality(Reached) \in Nat /\ graph \in Graphs
      /\ Cardinality(Reached) <= Size
      /\ \A v \in Vertices : /\ Distance[v] \in Nat
                             /\ v \in Reached <=> Distance[v] # Unreached
  BY <1>4, SearchFacts
<1>6. IsPulling(t) /\ job[t].value \in Nat /\ s \in Vertices
  BY <1>3, <1>5, VertexConstants DEF WindowFacts, JobsFit, Traversals
<1>7. /\ s \in Reached /\ s # source /\ Distance[s] < WindowEnd /\ job[t].value # Unreached
  BY LowerFacts
<1>8. DistFrom(job[t].value) = d /\ d \in Nat /\ d < WindowEnd /\ d < Cardinality(Reached) /\ d \in 1..Size
      /\ d < Unreached
  BY LowerFacts, VertexConstants
<1>9. PICK e \in graph : e[2] = s /\ Distance[e[1]] <= job[t].value
  BY <1>6, <1>7 DEF IsPulling
<1>10. e[1] \in Vertices
  BY <1>2, EdgesAre
<1>11. d >= Hops[s]
  <2>1. Hops[e[1]] \in Nat /\ Hops[e[1]] <= job[t].value /\ Hops[e[1]] # Unreached
    BY <1>5, <1>6, <1>8, <1>9, <1>10, SoundTypes, VertexConstants
  <2>2. Hops[s] <= Hops[e[1]] + 1
    BY <1>5, <1>9, <2>1, HopsOver
  <2> QED BY <1>6, <2>1, <2>2, SoundTypes, VertexConstants
<1> HIDE DEF d, s
<1>12. Distance' = [v \in Vertices |-> IF v = s /\ d < Distance[v] THEN d ELSE Distance[v]]
  BY <1>8 DEF s
<1>13. /\ \A v \in Vertices : v # s => Distance'[v] = Distance[v]
       /\ Distance'[s] = IF d < Distance[s] THEN d ELSE Distance[s]
  BY <1>6, <1>12
<1>14. Falls
  BY <1>1, <1>5, <1>8, <1>12 DEF Falls
<1>15. DistancesFit'
  <2>1. d \in 0..Size
    BY <1>5, <1>8, VertexConstants
  <2>2. Distance' \in [Vertices -> 0..Size \cup {Unreached}]
    BY <1>12, <2>1, SoundTypes
  <2>3. \A v \in Vertices : Distance'[v] >= Hops'[v]
    BY <1>11, <1>13, SoundTypes, <1>1, HopsStay
  <2> QED BY <2>2, <2>3 DEF DistancesFit
<1>16. /\ WindowEnd' = WindowEnd /\ Cardinality(Reached) <= Cardinality(Reached)'
       /\ Reached \subseteq Reached' /\ Cardinality(Reached)' \in Nat
  BY <1>4, <1>14, FallsTo
<1>17. Distance'[e[1]] < d
  BY <1>5, <1>6, <1>9, <1>10, <1>14 DEF d, Falls
<1>18. NearIsExact' /\ InWindow' /\ HasNearer'
  <2>1. Distance'[s] # Distance[s] =>
          /\ s # source /\ Distance'[s] <= WindowEnd /\ Distance'[s] <= Cardinality(Reached)
          /\ Distance'[s] = WindowEnd => s \in next_frontier'
          /\ \E f \in graph : f[2] = s /\ Distance'[f[1]] < Distance'[s]
    <3> SUFFICES ASSUME Distance'[s] # Distance[s]
                 PROVE  /\ s # source /\ d <= WindowEnd /\ d <= Cardinality(Reached) /\ d # WindowEnd
                        /\ Distance'[s] = d
      BY <1>9, <1>17
    <3> QED BY <1>5, <1>7, <1>8, <1>13
  <2>2. next_frontier \subseteq next_frontier'
    BY <1>1
  <2> QED BY <1>4, <1>6, <1>13, <1>14, <1>15, <2>1, <2>2, VerticesFit
<1>19. IsPushing(t)'
  <2>1. job'[t].s \in Reached' \ {source} /\ Distance'[job'[t].s] <= job'[t].value
    BY <1>3, <1>5, <1>6, <1>7, <1>8, <1>13, <1>16
  <2>2. job'[t].edges \subseteq OutEdges(job[t].s)'
    BY <1>1, <1>3 DEF OutEdges, s
  <2>3. job'[t].value < WindowEnd' /\ job'[t].value < Cardinality(Reached)'
    BY <1>3, <1>5, <1>8, <1>16
  <2> QED BY <1>3, <2>1, <2>2, <2>3 DEF IsPushing, s
<1>20. PendingFit' /\ pending \in [Vertices -> Nat]
  <2>1. \A v \in Vertices : Distance'[v] <= Distance[v] /\ Distance'[v] \in Nat
    BY <1>14 DEF Falls
  <2> QED BY <1>1, <1>2, <1>5, <1>16, <2>1 DEF WindowFacts, PendingFit, ControlTypeOK
<1>21. AllOwed'
  <2> SUFFICES ASSUME NEW f \in graph, f[1] \in Reached', Distance'[f[1]] \in round..(WindowEnd - 1)
               PROVE  Owed(f)' \/ Distance'[f[2]] <= Distance'[f[1]] + 1
    BY <1>1, <1>16 DEF AllOwed
  <2>1. f[1] \in Vertices /\ f[2] \in Vertices
    BY <1>2, EdgesAre
  <2>2. CASE f[1] = s /\ d <= Distance[s]
    <3>1. Distance'[s] = d
      BY <1>5, <1>6, <1>8, <1>13, <2>2
    <3>2. f \in job'[t].edges /\ job'[t].value <= Distance'[f[1]]
      BY <1>3, <1>8, <2>2, <3>1 DEF OutEdges
    <3> QED BY <1>3, <3>2 DEF Owed
  <2>3. CASE ~ (f[1] = s /\ d <= Distance[s])
    <3>1. Distance'[f[1]] = Distance[f[1]] /\ f[1] \in Reached
      <4>1. Distance'[f[1]] = Distance[f[1]]
        BY <1>5, <1>6, <1>8, <1>13, <2>1, <2>3
      <4> QED BY <2>1, <4>1 DEF Reached
    <3>2. Owed(f) \/ Distance[f[2]] <= Distance[f[1]] + 1
      BY <1>5, <3>1 DEF WindowFacts, AllOwed
    <3>3. ~ (job[t].s = f[1] /\ OffersBelow(t, Distance[f[1]]))
      <4> SUFFICES ASSUME f[1] = s, job[t].value < Distance[s] PROVE FALSE
        BY <1>3 DEF OffersBelow, s
      <4> QED BY <1>5, <1>6, <2>3 DEF d
    <3>4. Owed(f) => Owed(f)' \/ FALSE
      <4>1. \A v \in Vertices : pending[v] \in Nat /\ pending'[v] \in Nat /\ pending[v] <= pending'[v]
        BY <1>1, <1>20
      <4> SUFFICES ASSUME Owed(f) PROVE Owed(f)' \/ FALSE
        OBVIOUS
      <4> QED BY <1>1, <1>3, <1>4, <1>14, <2>1, <3>1, <3>3, <4>1, OwedKept
    <3>5. Distance'[f[2]] <= Distance[f[2]] /\ Distance'[f[2]] \in Nat
      BY <1>14, <2>1 DEF Falls
    <3> QED BY <1>5, <2>1, <3>1, <3>2, <3>4, <3>5
  <2> QED BY <2>2, <2>3
<1>22. next_frontier' \subseteq Reached' /\ pending' \in [Vertices -> Nat]
  BY <1>1, <1>5, <1>16, <1>20 DEF WindowFacts
<1> QED BY <1>1, <1>3, <1>4, <1>14, <1>15, <1>18, <1>19, <1>20, <1>21, <1>22, TaskStep

(* A task that pushes has a distance that leaves room for one more. *)
LEMMA PushOverFacts ==
  ASSUME RoundsAreSound, NEW t \in Tasks, NEW e, NEW lowered, Push(t, e, lowered)
  PROVE  /\ phase = "search" /\ job[t] \in Traversals /\ job[t].at = "push" /\ IsPushing(t)
         /\ job[t].value \in Nat /\ job[t].value + 1 \in 1..Size
         /\ job[t].s \in Reached /\ Distance[job[t].s] <= job[t].value
         /\ job[t].value < WindowEnd /\ job[t].value < Cardinality(Reached)
         /\ e \in graph /\ e[1] = job[t].s /\ e[1] \in Vertices /\ e[2] \in Vertices
<1>1. /\ job[t].at = "push" /\ e \in job[t].edges /\ job[t] \in Traversals /\ ControlTypeOK
  BY PushDoes DEF RoundsAreSound
<1>2. phase = "search"
  BY <1>1, InSearch
<1>3. WindowFacts /\ Cardinality(Reached) \in Nat /\ Cardinality(Reached) <= Size
  BY <1>2, SearchFacts
<1>4. IsPushing(t) /\ job[t].value \in Nat
  BY <1>1, <1>3, VertexConstants DEF WindowFacts, JobsFit, Traversals
<1>5. /\ job[t].s \in Reached /\ Distance[job[t].s] <= job[t].value
      /\ job[t].value < WindowEnd /\ job[t].value < Cardinality(Reached)
      /\ e \in graph /\ e[1] = job[t].s
  BY <1>1, <1>4 DEF IsPushing, OutEdges
<1>6. job[t].value + 1 \in 1..Size
  BY <1>3, <1>4, <1>5, VertexConstants
<1> QED BY <1>1, <1>2, <1>4, <1>5, <1>6, EdgesAre

(* The end of an edge takes a distance, and is put where it goes on. *)
LEMMA PushEdgeIsSound ==
  ASSUME RoundsAreSound, NEW t \in Tasks, NEW e, NEW lowered, Push(t, e, lowered),
         lowered => job[t].value + 1 <= Distance[e[2]],
         ~ lowered => Distance[e[2]] <= job[t].value + 1,
         Distance' = [v \in Vertices |->
                        IF v = e[2] /\ job[t].value + 1 < Distance[v]
                          THEN job[t].value + 1 ELSE Distance[v]]
  PROVE  RoundsAreSound'
<1>1. UNCHANGED <<program, active, frontier, mode, stride, round, phase, work, graph>>
  BY DEF Push
<1>2. ControlTypeOK
  BY DEF RoundsAreSound
<1> DEFINE s == job[t].s
           x == e[2]
           d == job[t].value + 1
<1>3. /\ job' \in [Tasks -> Jobs'] /\ pending' \in [Vertices -> Nat]
      /\ job'[t].at = "push" /\ job'[t].s = s /\ job'[t].edges = job[t].edges \ {e}
      /\ job'[t].value = job[t].value
      /\ \A u \in Tasks : u # t => job'[u] = job[u]
      /\ job[t].at = "push" /\ e \in job[t].edges /\ job[t] \in Traversals
      /\ next_frontier \subseteq next_frontier' /\ next_frontier' \subseteq next_frontier \cup {x}
      /\ \A v \in Vertices : pending[v] <= pending'[v]
      /\ \A v \in Vertices : v # x => pending'[v] = pending[v]
      /\ lowered /\ d = WindowEnd => x \in next_frontier' /\ pending' = pending
      /\ lowered /\ d # WindowEnd => pending'[x] > 0 /\ next_frontier' = next_frontier
      /\ ~ lowered => pending' = pending /\ next_frontier' = next_frontier
  BY <1>2, PushDoes
<1>4. phase = "search"
  BY <1>3, InSearch
<1>5. /\ WindowFacts /\ WindowEnd \in Nat /\ Cardinality(Reached) \in Nat /\ graph \in Graphs
      /\ Cardinality(Reached) <= Size
      /\ \A v \in Vertices : /\ Distance[v] \in Nat /\ Distance[v] <= Unreached
                             /\ v \in Reached <=> Distance[v] # Unreached
  BY <1>4, SearchFacts
<1>6. /\ IsPushing(t) /\ job[t].value \in Nat /\ s \in Vertices
      /\ pending \in [Vertices -> Nat]
  BY <1>2, <1>3, <1>5, VertexConstants DEF WindowFacts, JobsFit, Traversals, ControlTypeOK
<1>7. /\ s \in Reached /\ Distance[s] <= job[t].value
      /\ job[t].value < WindowEnd /\ job[t].value < Cardinality(Reached)
      /\ e \in graph /\ e[1] = s /\ x \in Vertices
  BY PushOverFacts
<1>8. d \in Nat /\ d <= WindowEnd /\ d <= Cardinality(Reached) /\ d <= Size /\ d < Unreached /\ d > 0
  BY <1>5, <1>6, <1>7, VertexConstants
<1>9. d >= Hops[x]
  <2>1. Hops[s] \in Nat /\ Hops[s] <= job[t].value /\ Hops[s] # Unreached
    BY <1>5, <1>6, <1>7, SoundTypes, VertexConstants
  <2>2. Hops[x] <= Hops[s] + 1
    BY <1>5, <1>7, <2>1, HopsOver
  <2> QED BY <1>6, <1>7, <2>1, <2>2, SoundTypes, VertexConstants
<1>10. job[t].value < d /\ job[t].value = d - 1
  BY <1>6
<1> HIDE DEF d, s, x
<1>11. /\ lowered => d <= Distance[x]
       /\ ~ lowered => Distance[x] <= d
       /\ Distance' = [v \in Vertices |-> IF v = x /\ d < Distance[v] THEN d ELSE Distance[v]]
  BY DEF d, x
<1>12. /\ \A v \in Vertices : v # x => Distance'[v] = Distance[v]
       /\ Distance'[x] = IF lowered THEN d ELSE Distance[x]
       /\ Distance'[x] <= d
  BY <1>5, <1>7, <1>8, <1>11
<1>13. Falls
  BY <1>1, <1>5, <1>8, <1>11 DEF Falls
<1>14. DistancesFit'
  <2>1. d \in 0..Size
    BY <1>8, VertexConstants
  <2>2. Distance' \in [Vertices -> 0..Size \cup {Unreached}]
    BY <1>11, <2>1, SoundTypes
  <2>3. \A v \in Vertices : Distance'[v] >= Hops'[v]
    BY <1>9, <1>12, SoundTypes, <1>1, HopsStay
  <2> QED BY <2>2, <2>3 DEF DistancesFit
<1>15. /\ WindowEnd' = WindowEnd /\ Cardinality(Reached) <= Cardinality(Reached)'
       /\ Reached \subseteq Reached' /\ Cardinality(Reached)' \in Nat
  BY <1>4, <1>13, FallsTo
<1>16. lowered => x # source /\ x # s
  <2>1. lowered => Distance[x] > 0 /\ Distance[x] > Distance[s]
    BY <1>5, <1>6, <1>7, <1>8, <1>10, <1>11
  <2>2. Distance[source] = 0
    BY <1>5, <1>4, HopsOfSource, VertexConstants, SearchFacts DEF WindowFacts, NearIsExact
  <2> QED BY <1>5, <1>6, <2>1, <2>2
<1>17. lowered => x \in Reached' /\ Distance'[x] = d
  BY <1>7, <1>8, <1>12 DEF Reached
<1>18. lowered => Distance'[s] < d
  BY <1>5, <1>6, <1>7, <1>10, <1>12, <1>16
<1>19. NearIsExact' /\ InWindow' /\ HasNearer'
  <2>1. Distance'[x] # Distance[x] =>
          /\ x # source /\ Distance'[x] <= WindowEnd /\ Distance'[x] <= Cardinality(Reached)
          /\ Distance'[x] = WindowEnd => x \in next_frontier'
          /\ \E f \in graph : f[2] = x /\ Distance'[f[1]] < Distance'[x]
    <3> SUFFICES ASSUME lowered
                 PROVE  /\ x # source /\ d <= WindowEnd /\ d <= Cardinality(Reached)
                        /\ d = WindowEnd => x \in next_frontier'
                        /\ Distance'[x] = d /\ e[2] = x /\ Distance'[e[1]] < d
      BY <1>7, <1>12
    <3> QED BY <1>3, <1>7, <1>8, <1>16, <1>17, <1>18 DEF x
  <2> QED BY <1>3, <1>4, <1>7, <1>12, <1>13, <1>14, <2>1, VerticesFit
<1>20. IsPushing(t)'
  <2>1. job'[t].s \in Reached' \ {source} /\ Distance'[job'[t].s] <= job'[t].value
    <3>1. Distance'[s] <= Distance[s] /\ Distance'[s] \in Nat
      BY <1>6, <1>13 DEF Falls
    <3> QED BY <1>3, <1>5, <1>6, <1>7, <1>15, <3>1 DEF IsPushing, s
  <2>2. job'[t].edges \subseteq OutEdges(job[t].s)'
    BY <1>1, <1>3, <1>6 DEF OutEdges, IsPushing, s
  <2>3. job'[t].value < WindowEnd' /\ job'[t].value < Cardinality(Reached)'
    BY <1>3, <1>5, <1>6, <1>7, <1>15
  <2> QED BY <1>3, <2>1, <2>2, <2>3 DEF IsPushing, s
<1>21. PendingFit'
  <2> SUFFICES ASSUME NEW v \in Vertices, pending'[v] > 0
               PROVE  v \in Reached' \ {source} /\ Distance'[v] < WindowEnd
    BY <1>15 DEF PendingFit
  <2>1. CASE pending[v] > 0
    <3>1. v \in Reached \ {source} /\ Distance[v] < WindowEnd
      BY <1>5, <2>1 DEF WindowFacts, PendingFit
    <3> QED BY <1>5, <1>13, <1>15, <3>1 DEF Falls
  <2>2. CASE ~ pending[v] > 0
    <3>1. v = x /\ lowered /\ d # WindowEnd
      BY <1>3, <2>2
    <3> QED BY <1>5, <1>8, <1>16, <1>17, <3>1
  <2> QED BY <2>1, <2>2
<1>22. next_frontier' \subseteq Reached'
  <2>1. next_frontier \subseteq Reached
    BY <1>5 DEF WindowFacts
  <2> QED BY <1>3, <1>15, <1>17, <2>1
<1>23. AllOwed'
  <2> SUFFICES ASSUME NEW f \in graph, f[1] \in Reached', Distance'[f[1]] \in round..(WindowEnd - 1)
               PROVE  Owed(f)' \/ Distance'[f[2]] <= Distance'[f[1]] + 1
    BY <1>1, <1>15 DEF AllOwed
  <2>1. f[1] \in Vertices /\ f[2] \in Vertices
    BY <1>2, EdgesAre
  <2>2. CASE f[1] = x /\ lowered
    <3>1. d # WindowEnd
      BY <1>5, <1>17, <2>2
    <3>2. pending'[x] > 0
      BY <1>3, <2>2, <3>1
    <3> QED BY <2>2, <3>2 DEF Owed
  <2>3. CASE ~ (f[1] = x /\ lowered)
    <3>1. Distance'[f[1]] = Distance[f[1]] /\ f[1] \in Reached
      <4>1. Distance'[f[1]] = Distance[f[1]]
        BY <1>7, <1>12, <2>1, <2>3
      <4> QED BY <2>1, <4>1 DEF Reached
    <3>2. Owed(f) \/ Distance[f[2]] <= Distance[f[1]] + 1
      BY <1>5, <3>1 DEF WindowFacts, AllOwed
    <3> DEFINE Good == Distance'[f[2]] <= Distance'[f[1]] + 1
    <3>3. ASSUME f \in job[t].edges, job[t].value <= Distance[f[1]]
          PROVE  Owed(f)' \/ Good
      <4>1. CASE f = e
        <5>1. Distance'[x] <= d /\ d <= Distance[f[1]] + 1 /\ f[2] = x
          BY <1>5, <1>6, <1>10, <1>12, <2>1, <3>3, <4>1 DEF d, x
        <5> QED BY <1>5, <1>7, <1>8, <1>13, <2>1, <3>1, <5>1 DEF Falls
      <4>2. CASE f # e
        <5>1. f \in job'[t].edges /\ job'[t].value <= Distance'[f[1]]
          BY <1>3, <3>1, <3>3, <4>2
        <5> QED BY <1>3, <5>1 DEF Owed
      <4> QED BY <4>1, <4>2
    <3>4. Owed(f) => Owed(f)' \/ Good
      <4>1. \A v \in Vertices : pending[v] \in Nat /\ pending'[v] \in Nat /\ pending[v] <= pending'[v]
        BY <1>3, <1>6
      <4> SUFFICES ASSUME Owed(f) PROVE Owed(f)' \/ Good
        OBVIOUS
      <4> HIDE DEF Good
      <4> QED BY <1>1, <1>3, <1>4, <1>13, <2>1, <3>1, <3>3, <4>1, OwedKept
    <3>5. Distance'[f[2]] <= Distance[f[2]] /\ Distance'[f[2]] \in Nat
      BY <1>13, <2>1 DEF Falls
    <3> QED BY <1>5, <2>1, <3>1, <3>2, <3>4, <3>5
  <2> QED BY <2>2, <2>3
<1> QED BY <1>1, <1>3, <1>4, <1>13, <1>14, <1>19, <1>20, <1>21, <1>22, <1>23, TaskStep

LEMMA EndJobIsSound ==
  ASSUME RoundsAreSound, NEW t \in Tasks, EndJob(t), Distance' = Distance
  PROVE  RoundsAreSound'
<1>1. /\ job[t].at = "push" /\ job[t].edges = {} /\ job' = [job EXCEPT ![t] = NoJob]
      /\ UNCHANGED <<program, active, frontier, next_frontier, mode, stride, round, phase, work,
                     pending, graph>>
  BY DEF EndJob
<1>2. ControlTypeOK
  BY DEF RoundsAreSound
<1>3. /\ job' \in [Tasks -> Jobs'] /\ job'[t].at = "idle"
      /\ \A u \in Tasks : u # t => job'[u] = job[u]
  BY <1>1, <1>2, NoJobLeft
<1>4. phase = "search"
  BY <1>1, InSearch
<1>5. WindowFacts /\ pending \in [Vertices -> Nat]
  BY <1>2, <1>4, SearchFacts DEF ControlTypeOK
<1>6. Falls /\ DistancesFit' /\ NearIsExact' /\ InWindow' /\ HasNearer' /\ Reached' = Reached
  BY <1>1, <1>4, SameFits
<1>7. WindowEnd' = WindowEnd
  BY <1>1 DEF WindowEnd
<1>8. PendingFit'
  BY <1>1, <1>5, <1>6, <1>7 DEF WindowFacts, PendingFit
<1>9. AllOwed'
  <2> SUFFICES ASSUME NEW f \in graph, f[1] \in Reached, Distance[f[1]] \in round..(WindowEnd - 1)
               PROVE  Owed(f)' \/ Distance[f[2]] <= Distance[f[1]] + 1
    BY <1>1, <1>6, <1>7 DEF AllOwed
  <2>1. Owed(f) \/ Distance[f[2]] <= Distance[f[1]] + 1
    BY <1>5 DEF WindowFacts, AllOwed
  <2>2. f[1] \in Vertices
    BY DEF Reached
  <2>3. Owed(f) => Owed(f)' \/ FALSE
    <3>1. \A v \in Vertices : pending[v] \in Nat /\ pending'[v] \in Nat /\ pending[v] <= pending'[v]
      BY <1>1, <1>5
    <3> SUFFICES ASSUME Owed(f) PROVE Owed(f)' \/ FALSE
      OBVIOUS
    <3> QED BY <1>1, <1>3, <1>4, <1>6, <2>2, <3>1, OwedKept
  <2> QED BY <2>1, <2>3
<1>10. next_frontier' \subseteq Reached'
  BY <1>1, <1>5, <1>6 DEF WindowFacts
<1> QED BY <1>1, <1>3, <1>4, <1>5, <1>6, <1>8, <1>9, <1>10, TaskStep

(* Nothing is owed any more: the window is settled up to its end. *)
LEMMA SearchedIsSound ==
  ASSUME RoundsAreSound, Searched, Distance' = Distance
  PROVE  RoundsAreSound'
<1>1. /\ phase = "search" /\ frontier = {} /\ Resting /\ \A v \in Vertices : pending[v] = 0
      /\ phase' = "top" /\ round' = WindowEnd /\ mode' = AfterSearch
      /\ UNCHANGED <<program, active, frontier, next_frontier, stride, work, pending, job, graph>>
  BY DEF Searched, WindowEnd
<1>2. /\ WindowFacts /\ ControlTypeOK /\ graph \in Graphs
      /\ round \in Nat /\ WindowEnd \in Nat /\ round < WindowEnd
      /\ \A v \in Vertices : /\ Distance[v] \in Nat /\ Distance[v] <= Unreached
                             /\ v \in Reached <=> Distance[v] # Unreached
  BY <1>1, SearchFacts
<1>3. \A e \in graph : ~ Owed(e)
  <2>1. \A t \in Tasks : job[t].at = "idle"
    BY <1>1, AllIdle
  <2>2. \A e \in graph : e[1] \in Vertices
    BY <1>2, EdgesAre
  <2> QED BY <1>1, <2>1, <2>2 DEF Owed
<1>4. \A k \in Nat : round + k <= WindowEnd =>
        \A v \in Vertices : Hops[v] = round + k => Distance[v] = Hops[v]
  <2> DEFINE Good == {k \in Nat : round + k <= WindowEnd =>
                        \A v \in Vertices : Hops[v] = round + k => Distance[v] = Hops[v]}
  <2>1. 0 \in Good
    BY <1>2 DEF WindowFacts, NearIsExact
  <2>2. ASSUME NEW k \in Nat, k \in Good PROVE k + 1 \in Good
    <3> SUFFICES ASSUME round + (k + 1) <= WindowEnd, NEW v \in Vertices, Hops[v] = round + (k + 1)
                 PROVE  Distance[v] = Hops[v]
      OBVIOUS
    <3>1. CASE Hops[v] = Unreached
      BY <1>2, <3>1, SoundTypes, VertexConstants
    <3>2. CASE Hops[v] # Unreached
      <4>1. Hops[v] # 0 /\ Hops[v] \in Nat
        BY <1>2
      <4>2. v # source
        BY <1>2, <4>1, HopsOfSource
      <4>3. PICK e \in graph : e[2] = v /\ Hops[e[1]] = Hops[v] - 1
        BY <1>2, <3>2, <4>2, HopsBefore
      <4>4. e[1] \in Vertices /\ Hops[e[1]] = round + k /\ round + k <= WindowEnd - 1
        BY <1>2, <4>3, EdgesAre
      <4>5. Distance[e[1]] = round + k
        BY <1>2, <2>2, <4>4
      <4>6. round + k # Unreached
        BY <1>2, <3>2, <4>1, SoundTypes, VertexConstants
      <4>7. Distance[v] <= Distance[e[1]] + 1
        BY <1>2, <1>3, <4>3, <4>4, <4>5, <4>6 DEF WindowFacts, AllOwed
      <4>8. Distance[v] >= Hops[v]
        BY SoundTypes
      <4> QED BY <1>2, <4>1, <4>5, <4>7, <4>8
    <3> QED BY <3>1, <3>2
  <2>3. \A k \in Nat : k \in Good
    <3> HIDE DEF Good
    <3> QED BY <2>1, <2>2, FromZeroOn
  <2> QED BY <2>3
<1>5. \A v \in Vertices : Hops[v] <= WindowEnd => Distance[v] = Hops[v]
  <2> SUFFICES ASSUME NEW v \in Vertices, Hops[v] <= WindowEnd PROVE Distance[v] = Hops[v]
    OBVIOUS
  <2>1. Hops[v] \in Nat
    BY SoundTypes, VertexConstants
  <2>2. CASE Hops[v] <= round
    BY <1>2, <2>2 DEF WindowFacts, NearIsExact
  <2>3. CASE Hops[v] > round
    <3> DEFINE k == Hops[v] - round
    <3>1. k \in Nat /\ round + k = Hops[v]
      BY <1>2, <2>1, <2>3
    <3> HIDE DEF k
    <3> QED BY <1>4, <3>1
  <2> QED BY <1>2, <2>1, <2>2, <2>3
<1>6. Hops' = Hops /\ mode' \in 5..9 /\ Settled' = WindowEnd
  <2>1. mode \in 5..9
    BY <1>2 DEF WindowFacts, ControlTypeOK
  <2>2. mode' \in 5..9
    BY <1>1, <2>1 DEF AfterSearch
  <2> QED BY <1>1, <2>2, HopsStay DEF Settled
<1>7. \A v \in Vertices : Hops[v] > WindowEnd => Distance[v] = Unreached
  <2> SUFFICES ASSUME NEW v \in Vertices, Hops[v] > WindowEnd, v \in Reached PROVE FALSE
    BY <1>2
  <2>1. Distance[v] >= Hops[v] /\ Distance[v] <= WindowEnd /\ Hops[v] \in Nat
    BY <1>2, SoundTypes, VertexConstants DEF WindowFacts, InWindow
  <2> QED BY <1>2, <2>1
<1>8. Exact(Settled)'
  <2>1. \A v \in Vertices : Hops[v] \in Nat
    BY SoundTypes, VertexConstants
  <2> QED BY <1>2, <1>5, <1>6, <1>7, <2>1 DEF Exact
<1>9. ({v \in next_frontier : Distance[v] = round} = Ring(round))'
  <2>1. ASSUME NEW v \in next_frontier, Distance[v] = WindowEnd
        PROVE  v \in Vertices /\ Hops[v] = WindowEnd /\ WindowEnd # Unreached
    <3>1. v \in Vertices /\ v \in Reached
      BY <1>2 DEF WindowFacts, Reached
    <3>2. Hops[v] \in Nat
      BY <3>1, SoundTypes, VertexConstants
    <3> QED BY <1>2, <1>5, <1>7, <2>1, <3>1, <3>2
  <2>2. ASSUME NEW v \in Vertices, Hops[v] = WindowEnd, WindowEnd # Unreached
        PROVE  v \in next_frontier /\ Distance[v] = WindowEnd
    <3>1. Distance[v] = WindowEnd /\ v \in Reached
      BY <1>2, <1>5, <2>2
    <3> QED BY <1>2, <3>1 DEF WindowFacts, InWindow
  <2> QED BY <1>1, <1>6, <2>1, <2>2 DEF Ring
<1>10. (next_frontier \subseteq Reached /\ round >= 1)'
  BY <1>1, <1>2 DEF WindowFacts, Reached
<1>11. AtRest'
  BY <1>1, <1>2 DEF AtRest, Resting, WindowFacts
<1>12. ControlTypeOK'
  BY <1>1, <1>2, <1>6, JobsStay DEF ControlTypeOK
<1>13. DistancesFit'
  BY <1>1, FitStays, SoundTypes
<1>14. TopIs'
  BY <1>6, <1>8, <1>9, <1>10, <1>11 DEF TopIs
<1> QED BY <1>1, <1>12, <1>13, <1>14 DEF RoundsAreSound, PushIs, WindowIs, EndIs

LEMMA StopIsSound ==
  ASSUME RoundsAreSound, UNCHANGED control, Distance' = Distance
  PROVE  RoundsAreSound'
<1>1. UNCHANGED <<program, active, frontier, next_frontier, mode, stride, round, phase, work,
                  pending, job, graph>>
  BY DEF control
<1>2. /\ Hops' = Hops /\ Level' = Level /\ Settled' = Settled /\ Jobs' = Jobs
      /\ Claims' = Claims /\ WindowEnd' = WindowEnd
  BY <1>1, HopsStay DEF Level, Settled, Jobs, NoJob, Claims, WindowEnd
<1>3. /\ Reached' = Reached /\ (AtRest => AtRest') /\ Cardinality(Reached)' = Cardinality(Reached)
  BY <1>1 DEF Reached, AtRest, Resting
<1>4. ControlTypeOK' /\ DistancesFit'
  BY <1>1, <1>2 DEF RoundsAreSound, ControlTypeOK, DistancesFit
<1>5. TopIs' /\ EndIs'
  BY <1>1, <1>2, <1>3 DEF RoundsAreSound, TopIs, EndIs, Exact, Ring, Beyond
<1>6. PushIs'
  <2> SUFFICES ASSUME phase = "push" PROVE PushFacts'
    BY <1>1 DEF PushIs
  <2>1. PushFacts
    BY DEF RoundsAreSound, PushIs
  <2>2. Ring(Level)' = Ring(Level) /\ Ring(Level + 1)' = Ring(Level + 1) /\ Beyond(Level)' = Beyond(Level)
    BY <1>2 DEF Ring, Beyond
  <2>3. Begun' = Begun /\ Claimed' = Claimed
    BY <1>1, <1>2, <2>2 DEF Begun, Claimed
  <2>4. Written' = Written
    BY <1>1, <1>2, <2>3 DEF Written
  <2> QED BY <1>1, <1>2, <2>1, <2>2, <2>3, <2>4 DEF PushFacts, PushDistances
<1>7. WindowIs'
  <2> SUFFICES ASSUME phase = "search" PROVE WindowFacts'
    BY <1>1 DEF WindowIs
  <2>1. WindowFacts
    BY DEF RoundsAreSound, WindowIs
  <2>2. Falls /\ DistancesFit' /\ NearIsExact' /\ InWindow' /\ HasNearer'
    BY <1>1, SameFits
  <2>3. JobsFit'
    BY <1>1, <2>2, OthersFit DEF JobsFit
  <2>4. PendingFit'
    BY <1>1, <1>2, <1>3, <2>1 DEF WindowFacts, PendingFit
  <2>5. \A e \in graph : Owed(e) => Owed(e)'
    BY <1>1 DEF Owed, OffersBelow
  <2>6. AllOwed'
    BY <1>1, <1>2, <1>3, <2>1, <2>5 DEF WindowFacts, AllOwed
  <2> QED BY <1>1, <1>3, <2>1, <2>2, <2>3, <2>4, <2>6 DEF WindowFacts
<1> QED BY <1>4, <1>5, <1>6, <1>7 DEF RoundsAreSound

-----------------------------------------------------------------------------
(* breadth_first_search. *)
LEMMA SearchStepIsSound ==
  ASSUME RoundsAreSound, SearchNext
  PROVE  RoundsAreSound'
<1>1. program = "search"
  BY DEF SearchNext
<1>2. UNCHANGED <<program, dist>> => Distance' = Distance
  BY <1>1 DEF Distance
<1>3. ASSUME dist' = dist, \/ Break \/ TopDown \/ Pushed \/ Search \/ Searched \/ Stop
      PROVE  RoundsAreSound'
  <2>1. program' = program
    BY <1>3 DEF Break, TopDown, Pushed, Search, Searched, Stop, control
  <2> QED BY <1>2, <1>3, <2>1, BreakIsSound, TopDownIsSound, PushedIsSound, SearchIsSound,
             SearchedIsSound, StopIsSound DEF Stop
<1>4. ASSUME NEW s \in frontier, Take(s), dist' = DistOf({s}) PROVE RoundsAreSound'
  <2>1. Distance' = [v \in Vertices |-> IF v = s THEN round ELSE Distance[v]]
    BY <1>1, <1>4 DEF Distance, DistOf, Take
  <2> QED BY <1>1, <1>4, <2>1, TakeIsSound
<1>5. ASSUME NEW s \in frontier, Consume(s, dist[s]), dist' = dist PROVE RoundsAreSound'
  <2>1. Distance' = Distance /\ dist[s] = Distance[s]
    BY <1>1, <1>2, <1>5 DEF Distance, Consume
  <2> QED BY <1>5, <2>1, ConsumeIsSound
<1>6. ASSUME NEW t \in Tasks, Claim(t) \/ EndJob(t), dist' = dist PROVE RoundsAreSound'
  <2>1. Distance' = Distance
    BY <1>2, <1>6 DEF Claim, EndJob
  <2> QED BY <1>6, <2>1, ClaimIsSound, EndJobIsSound
<1>7. ASSUME NEW t \in Tasks, LowerOwn(t) PROVE RoundsAreSound'
  <2> DEFINE d == DistFrom(job[t].value)
  <2>1. Lower(t) /\ dist' = [dist EXCEPT ![job[t].s] = Nearer(@, d)] /\ program' = program
    BY <1>7 DEF LowerOwn, Lower
  <2>2. dist \in [Vertices -> 0..Size \cup {Unreached}] /\ Distance = dist /\ Distance' = dist'
    BY <1>1, <2>1, SoundTypes DEF Distance, DistancesFit
  <2> HIDE DEF d
  <2>3. Distance' = [v \in Vertices |-> IF v = job[t].s /\ d < Distance[v] THEN d ELSE Distance[v]]
    BY <2>1, <2>2 DEF Nearer
  <2> QED BY <2>1, <2>3, LowerIsSound DEF d
<1>8. ASSUME NEW t \in Tasks, NEW s \in Vertices, PopTop(t, s), dist' = dist PROVE RoundsAreSound'
  <2>1. Distance' = Distance
    BY <1>2, <1>8 DEF PopTop
  <2> QED BY <1>8, <2>1, PopTopIsSound
<1>9. ASSUME NEW t \in Tasks, NEW e \in graph, PullDist(t, e) PROVE RoundsAreSound'
  <2> DEFINE val == Nearer(job[t].value, dist[e[1]])
  <2>1. Pull(t, e, val, job[t].parent) /\ Distance' = Distance /\ dist = Distance
    BY <1>1, <1>2, <1>9 DEF PullDist, Pull, Distance
  <2>2. job[t] \in Traversals /\ e[1] \in Vertices
    <3>1. job[t].at = "pull" /\ ControlTypeOK
      BY <2>1 DEF Pull, RoundsAreSound
    <3> QED BY <3>1, JobFacts, EdgesAre
  <2>3. job[t].value \in 0..Unreached /\ job[t].parent \in Vertices \cup {Unreached}
        /\ dist[e[1]] \in Nat /\ dist[e[1]] <= Unreached
    BY <2>1, <2>2, SoundTypes, VertexConstants DEF Traversals
  <2>4. /\ val \in 0..Unreached /\ val <= job[t].value /\ val <= Distance[e[1]]
        /\ val = job[t].value \/ val = Distance[e[1]]
    BY <2>1, <2>3, VertexConstants DEF Nearer
  <2> HIDE DEF val
  <2> QED BY <2>1, <2>3, <2>4, PullIsSound
<1>10. ASSUME NEW t \in Tasks, NEW e \in graph, PushDist(t, e) PROVE RoundsAreSound'
  <2> DEFINE d == job[t].value + 1
  <2>1. /\ Push(t, e, d < dist[e[2]]) /\ dist' = [dist EXCEPT ![e[2]] = Nearer(@, d)]
        /\ program' = program
    BY <1>10 DEF PushDist, Push
  <2>2. dist \in [Vertices -> 0..Size \cup {Unreached}] /\ Distance = dist /\ Distance' = dist'
    BY <1>1, <2>1, SoundTypes DEF Distance, DistancesFit
  <2>3. d \in Nat /\ dist[e[2]] \in Nat /\ e[2] \in Vertices
    <3>1. job[t].at = "push" /\ ControlTypeOK
      BY <2>1 DEF Push, RoundsAreSound
    <3>2. job[t] \in Traversals /\ e[2] \in Vertices
      BY <3>1, JobFacts, EdgesAre
    <3> QED BY <2>2, <3>2, VertexConstants DEF Traversals
  <2> HIDE DEF d
  <2>4. Distance' = [v \in Vertices |-> IF v = e[2] /\ d < Distance[v] THEN d ELSE Distance[v]]
    BY <2>1, <2>2 DEF Nearer
  <2>5. (d < dist[e[2]] => d <= Distance[e[2]]) /\ (~ d < dist[e[2]] => Distance[e[2]] <= d)
    BY <2>2, <2>3
  <2> DEFINE lowered == d < dist[e[2]]
  <2>6. Push(t, e, lowered) /\ (lowered => d <= Distance[e[2]]) /\ (~ lowered => Distance[e[2]] <= d)
    BY <2>1, <2>5
  <2> HIDE DEF lowered
  <2> QED BY <2>4, <2>6, PushEdgeIsSound DEF d
<1> QED BY <1>1, <1>3, <1>4, <1>5, <1>6, <1>7, <1>8, <1>9, <1>10, ToBottomUpIsSound,
           ToSearchIsSound, BottomUpIsSound, LookUpIsSound DEF SearchNext

-----------------------------------------------------------------------------
(* breadth_first_search_tree: distances are lowered with their words. *)
IsOfEdge(v) ==
  dist_and_parent[v] = Blank \/ (Dist(v) \in 1..Size /\ <<Parent(v), v>> \in graph)

WordsAreSound ==
  /\ WordsFit /\ dist_and_parent[source] = <<0, Unreached>>
  /\ \A v \in Vertices \ {source} : IsOfEdge(v)
  /\ ParentsAreCloser

PulledFrom(t) ==
  job[t].at = "pull" /\ job[t].value # Unreached =>
    <<job[t].parent, job[t].s>> \in graph /\ Dist(job[t].parent) <= job[t].value

TreeIsSound == program = "tree" => WordsAreSound /\ \A t \in Tasks : PulledFrom(t)

LEMMA WordFacts ==
  ASSUME RoundsAreSound, program = "tree", TreeIsSound
  PROVE  /\ WordsAreSound /\ (\A t \in Tasks : PulledFrom(t)) /\ WordsFit
         /\ ControlTypeOK /\ graph \in Graphs
         /\ \A v \in Vertices : /\ dist_and_parent[v] \in Words
                                /\ Dist(v) = Distance[v] /\ Dist(v) \in Nat /\ Dist(v) <= Unreached
                                /\ dist_and_parent[v] = <<Dist(v), Parent(v)>>
         /\ \A v \in Vertices \ {source} :
              Dist(v) # Unreached => <<Parent(v), v>> \in graph /\ Parent(v) \in Vertices
<1>1. WordsAreSound /\ (\A t \in Tasks : PulledFrom(t)) /\ WordsFit /\ ControlTypeOK
  BY DEF TreeIsSound, WordsAreSound, RoundsAreSound
<1>2. ASSUME NEW v \in Vertices
      PROVE  /\ dist_and_parent[v] \in Words
             /\ Dist(v) = Distance[v] /\ Dist(v) \in Nat /\ Dist(v) <= Unreached
             /\ dist_and_parent[v] = <<Dist(v), Parent(v)>>
  <2>1. dist_and_parent[v] \in Words
    BY <1>1 DEF WordsFit
  <2>2. Dist(v) = Distance[v]
    BY DEF Distance
  <2> QED BY <2>1, <2>2, WordsAre, SoundTypes, VertexConstants DEF Dist, Parent
<1>3. ASSUME NEW v \in Vertices \ {source}, Dist(v) # Unreached
      PROVE  <<Parent(v), v>> \in graph /\ Parent(v) \in Vertices
  <2>1. dist_and_parent[v] # Blank
    BY <1>3 DEF Blank, Dist
  <2>2. <<Parent(v), v>> \in graph
    BY <1>1, <2>1 DEF WordsAreSound, IsOfEdge
  <2> DEFINE e == <<Parent(v), v>>
  <2>3. e \in graph /\ e[1] = Parent(v)
    BY <2>2
  <2>4. e[1] \in Vertices
    <3> HIDE DEF e
    <3> QED BY <1>1, <2>3, EdgesAre
  <2> QED BY <2>2, <2>3, <2>4
<1> QED BY <1>1, <1>2, <1>3, SoundTypes

(* The word of an edge from a vertex that is closer keeps the tree. *)
LEMMA WordIsSound ==
  ASSUME RoundsAreSound, program = "tree", TreeIsSound, program' = program, graph' = graph,
         NEW d \in Vertices, NEW word \in Words,
         dist_and_parent' = [dist_and_parent EXCEPT ![d] = Lowest(@, word)],
         IsLower(word, dist_and_parent[d]) =>
           /\ word[1] \in 1..Size /\ <<word[2], d>> \in graph /\ word[2] \in Vertices
           /\ Dist(word[2]) < word[1]
  PROVE  WordsAreSound' /\ \A v \in Vertices : Dist(v)' <= Dist(v)
<1>1. /\ WordsAreSound /\ WordsFit
      /\ \A v \in Vertices : Dist(v) = Distance[v] /\ Dist(v) \in Nat
      /\ \A v \in Vertices \ {source} :
           Dist(v) # Unreached => <<Parent(v), v>> \in graph /\ Parent(v) \in Vertices
  BY WordFacts
<1>2. /\ WordsFit'
      /\ \A v \in Vertices : v # d => dist_and_parent'[v] = dist_and_parent[v]
      /\ dist_and_parent[d] \in Words
      /\ IsLower(word, dist_and_parent[d]) =>
           word[1] <= Distance[d] /\ dist_and_parent'[d] = word
      /\ ~ IsLower(word, dist_and_parent[d]) => dist_and_parent' = dist_and_parent
  BY <1>1, OfferedWord
<1>3. CASE ~ IsLower(word, dist_and_parent[d])
  <2>1. dist_and_parent' = dist_and_parent
    BY <1>2, <1>3
  <2>2. \A v \in Vertices : Dist(v)' <= Dist(v)
    BY <1>1, <2>1 DEF Dist
  <2>3. (\A v \in Vertices \ {source} : IsOfEdge(v)') /\ ParentsAreCloser'
    BY <1>1, <2>1 DEF WordsAreSound, IsOfEdge, ParentsAreCloser, Dist, Parent
  <2> QED BY <1>1, <1>2, <2>1, <2>2, <2>3 DEF WordsAreSound
<1>4. CASE IsLower(word, dist_and_parent[d])
  <2>1. /\ word[1] \in 1..Size /\ <<word[2], d>> \in graph /\ word[2] \in Vertices
        /\ Dist(word[2]) < word[1] /\ dist_and_parent'[d] = word /\ word[1] <= Dist(d)
    BY <1>1, <1>2, <1>4
  <2>2. d # source
    <3>1. Dist(source) = 0
      BY <1>1 DEF WordsAreSound, Dist
    <3> QED BY <2>1, <3>1, VertexConstants
  <2>3. /\ Dist(d)' = word[1] /\ Parent(d)' = word[2]
        /\ \A v \in Vertices : v # d => Dist(v)' = Dist(v) /\ Parent(v)' = Parent(v)
    BY <1>2, <2>1 DEF Dist, Parent
  <2>4. \A v \in Vertices : Dist(v)' <= Dist(v) /\ Dist(v)' \in Nat
    BY <1>1, <2>1, <2>3, VertexConstants
  <2>5. dist_and_parent'[source] = <<0, Unreached>>
    BY <1>1, <1>2, <2>2, VertexConstants DEF WordsAreSound
  <2>6. ASSUME NEW v \in Vertices \ {source} PROVE IsOfEdge(v)'
    <3>1. CASE v = d
      BY <2>1, <2>3, <3>1 DEF IsOfEdge
    <3>2. CASE v # d
      <4>1. IsOfEdge(v)
        BY <1>1 DEF WordsAreSound
      <4> QED BY <1>2, <2>3, <3>2, <4>1 DEF IsOfEdge, Blank
    <3> QED BY <3>1, <3>2
  <2>7. ASSUME NEW v \in Vertices \ {source}, Dist(v)' # Unreached
        PROVE  Dist(Parent(v))' < Dist(v)'
    <3>1. CASE v = d
      <4>1. Dist(Parent(v))' = Dist(word[2])'
        BY <2>3, <3>1 DEF Dist
      <4>2. Dist(word[2])' <= Dist(word[2]) /\ Dist(word[2])' \in Nat /\ Dist(word[2]) \in Nat
        BY <1>1, <2>1, <2>4
      <4> QED BY <2>1, <2>3, <3>1, <4>1, <4>2
    <3>2. CASE v # d
      <4> DEFINE p == Parent(v)
      <4>1. Dist(v)' = Dist(v) /\ p \in Vertices /\ Dist(p) < Dist(v)
        BY <1>1, <2>3, <2>7, <3>2 DEF WordsAreSound, ParentsAreCloser
      <4>2. Dist(Parent(v))' = dist_and_parent'[p][1]
        BY <2>3, <3>2 DEF Dist
      <4> HIDE DEF p
      <4>3. dist_and_parent'[p][1] <= Dist(p) /\ dist_and_parent'[p][1] \in Nat
        BY <2>4, <4>1 DEF Dist
      <4> QED BY <1>1, <4>1, <4>2, <4>3
    <3> QED BY <3>1, <3>2
  <2>8. ParentsAreCloser'
    BY <2>7 DEF ParentsAreCloser
  <2> QED BY <1>2, <2>4, <2>5, <2>6, <2>8 DEF WordsAreSound
<1> QED BY <1>3, <1>4

LEMMA WordsStay ==
  ASSUME RoundsAreSound, program = "tree", TreeIsSound,
         UNCHANGED <<program, graph, dist_and_parent>>
  PROVE  /\ WordsAreSound' /\ Distance' = Distance
         /\ \A t \in Tasks : job'[t] = job[t] => PulledFrom(t)'
<1>1. WordsAreSound /\ \A t \in Tasks : PulledFrom(t)
  BY WordFacts
<1>2. WordsAreSound'
  BY <1>1 DEF WordsAreSound, WordsFit, IsOfEdge, Blank, ParentsAreCloser, Dist, Parent
<1>3. Distance' = Distance
  BY DEF Distance, Dist
<1> QED BY <1>1, <1>2, <1>3 DEF PulledFrom, Dist

(* A step of task t, after which what the others have pulled is as it was. *)
LEMMA OthersPulled ==
  ASSUME RoundsAreSound, program = "tree", TreeIsSound, graph' = graph,
         \A v \in Vertices : Dist(v)' <= Dist(v) /\ Dist(v)' \in Nat,
         NEW t \in Tasks, job'[t] = job[t]
  PROVE  PulledFrom(t)'
<1>1. PulledFrom(t) /\ ControlTypeOK
  BY WordFacts
<1> SUFFICES ASSUME job[t].at = "pull", job[t].value # Unreached
             PROVE  /\ <<job[t].parent, job[t].s>> \in graph
                    /\ dist_and_parent'[job[t].parent][1] <= job[t].value
  BY DEF PulledFrom, Dist
<1> DEFINE e == <<job[t].parent, job[t].s>>
<1>2. e \in graph /\ e[1] = job[t].parent /\ Dist(job[t].parent) <= job[t].value
  BY <1>1 DEF PulledFrom
<1>3. e[1] \in Vertices
  <2> HIDE DEF e
  <2> QED BY <1>1, <1>2, EdgesAre
<1> DEFINE p == job[t].parent
<1>4. p \in Vertices /\ Dist(p) \in Nat
  BY <1>2, <1>3, WordFacts
<1>5. dist_and_parent'[p][1] <= Dist(p) /\ dist_and_parent'[p][1] \in Nat
  <2> HIDE DEF p
  <2> QED BY <1>4 DEF Dist
<1>6. job[t].value \in Nat
  BY <1>1, JobFacts, VertexConstants DEF Traversals
<1> QED BY <1>2, <1>4, <1>5, <1>6

LEMMA OfferKeepsTree ==
  ASSUME RoundsAreSound, program = "tree", TreeIsSound, NEW t \in Tasks, NEW e, Offer(t, e)
  PROVE  RoundsAreSound' /\ WordsAreSound' /\ \A u \in Tasks : PulledFrom(u)'
<1> DEFINE word == <<round, e[1]>>
           d == e[2]
           lowered == IsLower(word, dist_and_parent[e[2]])
<1>1. /\ dist_and_parent' = [dist_and_parent EXCEPT ![d] = Lowest(@, word)]
      /\ word[1] = round /\ word[2] = e[1] /\ Look(t, e, lowered)
  BY DEF Offer
<1>2. WordsFit /\ ControlTypeOK
  BY WordFacts
<1>3. /\ e \in graph /\ e[1] \in Vertices /\ d \in Vertices /\ word \in Words
      /\ round = Level + 1 /\ Distance[e[1]] = Level /\ Level \in 0..(Size - 1)
      /\ Level + 1 \in 1..Size /\ phase = "push" /\ UNCHANGED <<program, round, graph>>
  BY <1>2, OfferFacts
<1>4. <<e[1], d>> \in graph /\ Dist(e[1]) < round
  BY <1>2, <1>3, EdgesAre, WordFacts
<1>5. job' \in [Tasks -> Jobs'] /\ phase' = "push"
      /\ \A u \in Tasks : job'[u].at = job[u].at \/ job'[u].at = "claim"
  <2> HIDE DEF lowered
  <2> QED BY <1>1, <1>2, LookDoes
<1>6. RoundsAreSound'
  BY <1>2, OfferIsSound
<1> HIDE DEF word, d, lowered
<1>7. WordsAreSound' /\ \A v \in Vertices : Dist(v)' <= Dist(v)
  BY <1>1, <1>3, <1>4, WordIsSound
<1>8. \A u \in Tasks : job'[u].at # "pull"
  <2>1. \A u \in Tasks : job[u].at # "pull"
    BY <1>3 DEF RoundsAreSound, PushIs, PushFacts
  <2> QED BY <1>5, <2>1
<1> QED BY <1>6, <1>7, <1>8 DEF PulledFrom

LEMMA TreeBottomUpKeepsTree ==
  ASSUME RoundsAreSound, program = "tree", TreeIsSound, TreeBottomUp
  PROVE  RoundsAreSound' /\ WordsAreSound' /\ \A u \in Tasks : PulledFrom(u)'
<1>1. phase = "top" /\ mode = 1 /\ UNCHANGED <<program, job, graph>>
  BY DEF TreeBottomUp
<1>2. PICK par \in [FoundNow -> Vertices] :
        /\ \A s \in FoundNow : par[s] \in FoundBy(s)
        /\ dist_and_parent' = [v \in Vertices |-> IF v \in FoundNow THEN <<round, par[v]>>
                                                                   ELSE dist_and_parent[v]]
  BY DEF TreeBottomUp
<1>3. /\ FoundNow = Ring(round) /\ round \in 1..Size /\ Exact(round - 1)
      /\ \A s \in FoundNow : \A p \in FoundBy(s) :
           p \in Vertices /\ <<p, s>> \in graph /\ Hops[p] < round
  BY <1>1, FoundNowIs
<1>4. /\ WordsAreSound /\ WordsFit /\ graph \in Graphs
      /\ \A v \in Vertices : Dist(v) = Distance[v] /\ Dist(v) \in Nat /\ Dist(v) <= Unreached
      /\ \A v \in Vertices \ {source} :
           Dist(v) # Unreached => <<Parent(v), v>> \in graph /\ Parent(v) \in Vertices
  BY WordFacts
<1>5. ASSUME NEW v \in FoundNow
      PROVE  /\ v \in Vertices /\ v # source /\ Hops[v] = round /\ Dist(v) = Unreached
             /\ Dist(v)' = round /\ Parent(v)' = par[v] /\ dist_and_parent'[v] \in Words
             /\ par[v] \in Vertices /\ <<par[v], v>> \in graph
             /\ Hops[par[v]] < round /\ par[v] \notin FoundNow
  <2>1. v \in Vertices /\ Hops[v] = round /\ round # 0 /\ ~ Hops[v] <= round - 1
    BY <1>3 DEF Ring
  <2>2. v # source
    BY <1>4, <2>1, HopsOfSource
  <2>3. dist_and_parent'[v] = <<round, par[v]>>
    BY <1>2, <2>1
  <2>4. /\ par[v] \in Vertices /\ <<par[v], v>> \in graph /\ Hops[par[v]] < round
        /\ par[v] \notin FoundNow
    BY <1>2, <1>3 DEF Ring
  <2>5. Dist(v) = Unreached
    BY <1>3, <1>4, <2>1 DEF Exact
  <2>6. <<round, par[v]>> \in Words
    BY <1>3, <2>4 DEF Words
  <2> QED BY <2>1, <2>2, <2>3, <2>4, <2>5, <2>6 DEF Dist, Parent
<1>6. \A v \in Vertices : v \notin FoundNow =>
        dist_and_parent'[v] = dist_and_parent[v] /\ Dist(v)' = Dist(v) /\ Parent(v)' = Parent(v)
  BY <1>2 DEF Dist, Parent
<1>7. WordsFit'
  <2>1. dist_and_parent' = [v \in Vertices |-> dist_and_parent'[v]]
    BY <1>2
  <2>2. \A v \in Vertices : dist_and_parent'[v] \in Words
    BY <1>4, <1>5, <1>6 DEF WordsFit
  <2> QED BY <2>1, <2>2 DEF WordsFit
<1>8. dist_and_parent'[source] = <<0, Unreached>>
  BY <1>4, <1>5, <1>6, VertexConstants DEF WordsAreSound
<1>9. ASSUME NEW v \in Vertices \ {source} PROVE IsOfEdge(v)'
  <2>1. CASE v \in FoundNow
    BY <1>1, <1>3, <1>5, <2>1 DEF IsOfEdge
  <2>2. CASE v \notin FoundNow
    <3>1. IsOfEdge(v)
      BY <1>4 DEF WordsAreSound
    <3> QED BY <1>1, <1>6, <2>2, <3>1 DEF IsOfEdge, Blank
  <2> QED BY <2>1, <2>2
<1>10. ASSUME NEW v \in Vertices \ {source}, Dist(v)' # Unreached PROVE Dist(Parent(v))' < Dist(v)'
  <2>1. CASE v \in FoundNow
    <3> DEFINE p == par[v]
    <3>1. p \in Vertices /\ Hops[p] < round /\ Hops[p] \in Nat /\ dist_and_parent'[p][1] = Dist(p)
      <4>1. p \in Vertices /\ Hops[p] < round /\ p \notin FoundNow
        BY <1>5, <2>1
      <4> HIDE DEF p
      <4>2. dist_and_parent'[p] = dist_and_parent[p]
        BY <1>6, <4>1
      <4> QED BY <4>1, <4>2, SoundTypes, VertexConstants DEF Dist
    <3>2. Dist(p) = Hops[p]
      <4> HIDE DEF p
      <4>1. Hops[p] <= round - 1
        BY <1>3, <3>1
      <4> QED BY <1>3, <1>4, <3>1, <4>1 DEF Exact
    <3>3. Dist(Parent(v))' = dist_and_parent'[p][1]
      BY <1>5, <2>1 DEF Dist
    <3> QED BY <1>5, <2>1, <3>1, <3>2, <3>3
  <2>2. CASE v \notin FoundNow
    <3> DEFINE p == Parent(v)
    <3>1. Dist(v)' = Dist(v) /\ p \in Vertices /\ Dist(p) < Dist(v)
      BY <1>4, <1>6, <1>10, <2>2 DEF WordsAreSound, ParentsAreCloser
    <3>2. p \notin FoundNow
      <4> HIDE DEF p
      <4>1. p \in FoundNow => Dist(p) = Unreached
        BY <1>5
      <4>2. Dist(p) < Unreached
        BY <1>4, <3>1, VertexConstants
      <4> QED BY <4>1, <4>2, VertexConstants
    <3>3. Dist(Parent(v))' = dist_and_parent'[p][1]
      BY <1>6, <2>2 DEF Dist
    <3> HIDE DEF p
    <3>4. dist_and_parent'[p][1] = Dist(p)
      BY <1>6, <3>1, <3>2 DEF Dist
    <3> QED BY <3>1, <3>3, <3>4
  <2> QED BY <2>1, <2>2
<1>11. ParentsAreCloser'
  BY <1>10 DEF ParentsAreCloser
<1>12. \A u \in Tasks : job'[u].at # "pull"
  <2>1. \A u \in Tasks : job[u].at = "idle"
    BY <1>1, AllIdle DEF RoundsAreSound, TopIs, AtRest
  <2> QED BY <1>1, <2>1
<1> QED BY <1>7, <1>8, <1>9, <1>11, <1>12, TreeBottomUpIsSound DEF WordsAreSound, PulledFrom

LEMMA PullWordKeepsTree ==
  ASSUME RoundsAreSound, program = "tree", TreeIsSound, NEW t \in Tasks, NEW e, PullWord(t, e)
  PROVE  RoundsAreSound' /\ WordsAreSound' /\ \A u \in Tasks : PulledFrom(u)'
<1> DEFINE nearest == Lowest(<<job[t].value, job[t].parent>>, <<Dist(e[1]), e[1]>>)
           val == nearest[1]
           par == nearest[2]
<1>1. Pull(t, e, val, par) /\ dist_and_parent' = dist_and_parent
  BY DEF PullWord
<1>2. UNCHANGED <<program, graph>>
  BY <1>1 DEF Pull
<1>3. ControlTypeOK /\ (\A u \in Tasks : PulledFrom(u))
  BY WordFacts
<1>4. job[t].at = "pull" /\ e \in job[t].edges
  BY <1>1 DEF Pull
<1>5. job[t] \in Traversals /\ phase = "search"
  BY <1>3, <1>4, JobFacts, InSearch
<1>6. /\ job[t].value \in Nat /\ job[t].value <= Unreached
      /\ job[t].parent \in Vertices \cup {Unreached} /\ e \in graph
      /\ e[1] \in Vertices /\ e = <<e[1], e[2]>> /\ e[2] = job[t].s
  <2>1. IsPulling(t)
    BY <1>4, <1>5, SearchFacts DEF WindowFacts, JobsFit
  <2>2. e \in graph /\ e[2] = job[t].s
    BY <1>4, <2>1 DEF IsPulling, InEdges
  <2> QED BY <1>3, <1>5, <2>2, EdgesAre, VertexConstants DEF Traversals
<1>7. Dist(e[1]) = Distance[e[1]] /\ Dist(e[1]) \in Nat /\ Dist(e[1]) <= Unreached
  BY <1>6, WordFacts
<1>8. /\ \/ val = job[t].value /\ par = job[t].parent
         \/ val = Dist(e[1]) /\ par = e[1]
      /\ val <= job[t].value /\ val <= Dist(e[1])
  BY <1>6, <1>7 DEF Lowest, IsLower
<1> HIDE DEF val, par
<1>9. val \in 0..Unreached /\ par \in Vertices \cup {Unreached}
  BY <1>6, <1>7, <1>8, VertexConstants
<1>10. /\ WordsAreSound' /\ Distance' = Distance
       /\ \A u \in Tasks : job'[u] = job[u] => PulledFrom(u)'
  BY <1>1, <1>2, WordsStay
<1>11. RoundsAreSound'
  BY <1>1, <1>7, <1>8, <1>9, <1>10, PullIsSound
<1>12. /\ job'[t].s = job[t].s /\ job'[t].value = val /\ job'[t].parent = par
       /\ \A u \in Tasks : u # t => job'[u] = job[u]
  BY <1>1, <1>3, <1>9, PullDoes
<1>13. PulledFrom(t)'
  <2> SUFFICES ASSUME val # Unreached
               PROVE  /\ <<par, job[t].s>> \in graph
                      /\ dist_and_parent[par][1] <= val
    BY <1>1, <1>2, <1>12 DEF PulledFrom, Dist
  <2>1. CASE val = job[t].value /\ par = job[t].parent
    BY <1>3, <1>4, <2>1 DEF PulledFrom, Dist
  <2>2. CASE val = Dist(e[1]) /\ par = e[1]
    BY <1>6, <1>7, <2>2 DEF Dist
  <2> QED BY <1>8, <2>1, <2>2
<1> QED BY <1>10, <1>11, <1>12, <1>13

LEMMA LowerFromParentKeepsTree ==
  ASSUME RoundsAreSound, program = "tree", TreeIsSound, NEW t \in Tasks, LowerFromParent(t)
  PROVE  RoundsAreSound' /\ WordsAreSound' /\ \A u \in Tasks : PulledFrom(u)'
<1> DEFINE d == DistFrom(job[t].value)
           s == job[t].s
           word == <<d, job[t].parent>>
<1>1. /\ Lower(t) /\ dist_and_parent' = [dist_and_parent EXCEPT ![s] = Lowest(@, word)]
      /\ word[1] = d /\ word[2] = job[t].parent
  BY DEF LowerFromParent
<1>2. UNCHANGED <<program, graph>>
  BY <1>1 DEF Lower
<1>3. ControlTypeOK /\ PulledFrom(t) /\ WordsFit
  BY WordFacts
<1>4. /\ job[t] \in Traversals /\ job[t].at = "pull" /\ job[t].value \in Nat
      /\ job[t].value # Unreached /\ s \in Vertices /\ d = job[t].value + 1 /\ d \in 1..Size
  BY <1>1, LowerFacts
<1>5. <<job[t].parent, s>> \in graph /\ Dist(job[t].parent) <= job[t].value
  BY <1>3, <1>4 DEF PulledFrom
<1>6. job[t].parent \in Vertices
  <2> DEFINE e == <<job[t].parent, s>>
  <2>1. e \in graph /\ e[1] = job[t].parent
    BY <1>5
  <2> HIDE DEF e
  <2> QED BY <1>3, <2>1, EdgesAre
<1>7. word \in Words
  BY <1>4, <1>6 DEF Words
<1>8. Dist(job[t].parent) < d
  BY <1>4, <1>5, <1>6, WordFacts
<1> HIDE DEF d, s, word
<1>9. WordsAreSound' /\ \A v \in Vertices : Dist(v)' <= Dist(v)
  BY <1>1, <1>2, <1>4, <1>5, <1>6, <1>7, <1>8, WordIsSound
<1>10. Distance' = [v \in Vertices |-> IF v = s /\ d < Distance[v] THEN d ELSE Distance[v]]
  <2>1. dist_and_parent' = [dist_and_parent EXCEPT ![s] = Lowest(@, word)] /\ s \in Vertices
    BY <1>1, <1>4
  <2>2. /\ IsLower(word, dist_and_parent[s]) =>
             /\ word[1] <= Distance[s]
             /\ Distance' = [v \in Vertices |-> IF v = s THEN word[1] ELSE Distance[v]]
        /\ ~ IsLower(word, dist_and_parent[s]) => Distance[s] <= word[1] /\ Distance' = Distance
    BY <1>2, <1>3, <1>7, <2>1, OfferedWord
  <2>3. /\ IsLower(word, dist_and_parent[s]) =>
             /\ d <= Distance[s]
             /\ Distance' = [v \in Vertices |-> IF v = s THEN d ELSE Distance[v]]
        /\ ~ IsLower(word, dist_and_parent[s]) => Distance[s] <= d /\ Distance' = Distance
    BY <1>1, <2>2
  <2>4. Distance = [v \in Vertices |-> Distance[v]] /\ Distance[s] \in Nat /\ d \in Nat
    BY <1>4, SoundTypes, VertexConstants DEF DistancesFit
  <2> QED BY <1>4, <2>3, <2>4
<1>11. RoundsAreSound'
  BY <1>1, <1>10, LowerIsSound DEF s, d
<1>12. job'[t].at = "push" /\ \A u \in Tasks : u # t => job'[u] = job[u]
  BY <1>1, <1>3, LowerDoes
<1>13. \A u \in Tasks : u # t => PulledFrom(u)'
  <2>1. \A v \in Vertices : Dist(v)' <= Dist(v) /\ Dist(v)' \in Nat
    <3>1. ASSUME NEW v \in Vertices PROVE Dist(v)' \in Nat
      <4>1. dist_and_parent'[v] \in Words
        BY <1>9, <1>2 DEF WordsAreSound, WordsFit
      <4> QED BY <4>1, VertexConstants DEF Words, Dist
    <3> QED BY <1>9, <3>1
  <2> QED BY <1>2, <1>12, <2>1, OthersPulled
<1> QED BY <1>9, <1>11, <1>12, <1>13 DEF PulledFrom

LEMMA PushWordKeepsTree ==
  ASSUME RoundsAreSound, program = "tree", TreeIsSound, NEW t \in Tasks, NEW e, PushWord(t, e)
  PROVE  RoundsAreSound' /\ WordsAreSound' /\ \A u \in Tasks : PulledFrom(u)'
<1> DEFINE d == job[t].value + 1
           x == e[2]
           word == <<d, job[t].s>>
           lowered == IsLower(word, dist_and_parent[x])
<1>1. /\ Push(t, e, lowered) /\ dist_and_parent' = [dist_and_parent EXCEPT ![x] = Lowest(@, word)]
      /\ word[1] = d /\ word[2] = job[t].s
  BY DEF PushWord
<1>2. UNCHANGED <<program, graph>>
  BY <1>1 DEF Push
<1>3. ControlTypeOK /\ WordsFit
  BY WordFacts
<1>4. /\ job[t].value \in Nat /\ d \in 1..Size /\ Distance[job[t].s] <= job[t].value
      /\ e \in graph /\ e[1] = job[t].s /\ job[t].s \in Vertices /\ x \in Vertices
  <2> HIDE DEF lowered
  <2> QED BY <1>1, PushOverFacts
<1>5. <<job[t].s, x>> \in graph
  BY <1>3, <1>4, EdgesAre
<1>6. word \in Words /\ Dist(job[t].s) < d
  BY <1>4, WordFacts DEF Words
<1> HIDE DEF d, x, word
<1>7. WordsAreSound' /\ \A v \in Vertices : Dist(v)' <= Dist(v)
  BY <1>1, <1>2, <1>4, <1>5, <1>6, WordIsSound
<1>8. /\ lowered => /\ d <= Distance[x]
                    /\ Distance' = [v \in Vertices |-> IF v = x THEN d ELSE Distance[v]]
      /\ ~ lowered => Distance[x] <= d /\ Distance' = Distance
  <2>1. dist_and_parent' = [dist_and_parent EXCEPT ![x] = Lowest(@, word)] /\ x \in Vertices
    BY <1>1, <1>4
  <2>2. /\ lowered => /\ word[1] <= Distance[x]
                      /\ Distance' = [v \in Vertices |-> IF v = x THEN word[1] ELSE Distance[v]]
        /\ ~ lowered => Distance[x] <= word[1] /\ Distance' = Distance
    BY <1>2, <1>3, <1>6, <2>1, OfferedWord
  <2> QED BY <1>1, <2>2
<1> HIDE DEF lowered
<1>9. Distance' = [v \in Vertices |-> IF v = x /\ d < Distance[v] THEN d ELSE Distance[v]]
  <2>1. Distance = [v \in Vertices |-> Distance[v]] /\ Distance[x] \in Nat /\ d \in Nat
    BY <1>4, SoundTypes, VertexConstants DEF DistancesFit
  <2> QED BY <1>4, <1>8, <2>1
<1>10. RoundsAreSound'
  BY <1>1, <1>8, <1>9, PushEdgeIsSound DEF x, d
<1>11. job'[t].at = "push" /\ \A u \in Tasks : u # t => job'[u] = job[u]
  BY <1>1, <1>3, PushDoes
<1>12. \A u \in Tasks : u # t => PulledFrom(u)'
  <2>1. \A v \in Vertices : Dist(v)' <= Dist(v) /\ Dist(v)' \in Nat
    <3>1. ASSUME NEW v \in Vertices PROVE Dist(v)' \in Nat
      <4>1. dist_and_parent'[v] \in Words
        BY <1>7, <1>2 DEF WordsAreSound, WordsFit
      <4> QED BY <4>1, VertexConstants DEF Words, Dist
    <3> QED BY <1>7, <3>1
  <2> QED BY <1>2, <1>11, <2>1, OthersPulled
<1> QED BY <1>7, <1>10, <1>11, <1>12 DEF PulledFrom

LEMMA TreeStepIsSound ==
  ASSUME RoundsAreSound, TreeIsSound, TreeNext
  PROVE  RoundsAreSound' /\ TreeIsSound'
<1>1. program = "tree" /\ ControlTypeOK /\ WordsFit
  <2>1. program = "tree"
    BY DEF TreeNext
  <2> QED BY <2>1, WordFacts
<1>2. ASSUME UNCHANGED <<program, graph, dist_and_parent>>, RoundsAreSound',
             \A t \in Tasks : job'[t] = job[t] \/ job'[t].at # "pull" \/ job'[t].value = Unreached
      PROVE  TreeIsSound'
  <2>1. WordsAreSound' /\ \A t \in Tasks : job'[t] = job[t] => PulledFrom(t)'
    BY <1>1, <1>2, WordsStay
  <2>2. \A t \in Tasks : PulledFrom(t)'
    BY <1>2, <2>1 DEF PulledFrom
  <2> QED BY <2>1, <2>2 DEF TreeIsSound
<1>3. UNCHANGED <<program, graph, dist_and_parent>> => Distance' = Distance
  BY <1>1, WordsStay
<1>4. CASE TreeToBottomUp \/ TreeToSearch
  <2>1. UNCHANGED <<program, graph, job, dist_and_parent>>
    BY <1>4 DEF TreeToBottomUp, TreeToSearch
  <2>2. RoundsAreSound'
    BY <1>1, <1>4, TreeToBottomUpIsSound, TreeToSearchIsSound
  <2> QED BY <1>2, <2>1, <2>2
<1>5. CASE TreeBottomUp
  BY <1>1, <1>5, TreeBottomUpKeepsTree DEF TreeIsSound
<1>6. ASSUME \/ Break \/ TopDown \/ Pushed \/ Search \/ Searched \/ Stop,
             dist_and_parent' = dist_and_parent
      PROVE  RoundsAreSound' /\ TreeIsSound'
  <2>1. UNCHANGED <<program, graph, job, dist_and_parent>>
    BY <1>6 DEF Break, TopDown, Pushed, Search, Searched, Stop, control
  <2>2. RoundsAreSound'
    BY <1>3, <1>6, <2>1, BreakIsSound, TopDownIsSound, PushedIsSound, SearchIsSound,
       SearchedIsSound, StopIsSound DEF Stop
  <2> QED BY <1>2, <2>1, <2>2
<1>7. ASSUME NEW s \in frontier, Take(s) \/ Consume(s, Dist(s)), dist_and_parent' = dist_and_parent
      PROVE  RoundsAreSound' /\ TreeIsSound'
  <2>1. UNCHANGED <<program, graph, job, dist_and_parent>>
    BY <1>7 DEF Take, Consume
  <2>2. s \in Vertices /\ Dist(s) = Distance[s] /\ program # "search"
    BY <1>1, WordFacts DEF ControlTypeOK
  <2>3. Take(s) \/ Consume(s, Distance[s])
    BY <1>7, <2>2
  <2>4. RoundsAreSound'
    BY <1>3, <2>1, <2>2, <2>3, TakeIsSound, ConsumeIsSound
  <2> QED BY <1>2, <2>1, <2>4
<1>8. ASSUME NEW t \in Tasks, Claim(t) \/ EndJob(t), dist_and_parent' = dist_and_parent
      PROVE  RoundsAreSound' /\ TreeIsSound'
  <2>1. UNCHANGED <<program, graph, dist_and_parent>> /\ job' = [job EXCEPT ![t] = NoJob]
    BY <1>8 DEF Claim, EndJob
  <2>2. \A u \in Tasks : job'[u] = job[u] \/ job'[u].at # "pull"
    BY <1>1, <2>1 DEF ControlTypeOK, NoJob
  <2>3. RoundsAreSound'
    BY <1>3, <1>8, <2>1, ClaimIsSound, EndJobIsSound
  <2> QED BY <1>2, <2>1, <2>2, <2>3
<1>9. ASSUME NEW t \in Tasks, NEW s \in Vertices, PopTop(t, s), dist_and_parent' = dist_and_parent
      PROVE  RoundsAreSound' /\ TreeIsSound'
  <2>1. UNCHANGED <<program, graph, dist_and_parent>>
    BY <1>9 DEF PopTop
  <2>2. job'[t].value = Unreached /\ \A u \in Tasks : u # t => job'[u] = job[u]
    BY <1>1, <1>9, PopTopDoes
  <2>3. RoundsAreSound'
    BY <1>3, <1>9, <2>1, PopTopIsSound
  <2> QED BY <1>2, <2>1, <2>2, <2>3
<1>10. ASSUME NEW t \in Tasks, LowerFromParent(t) PROVE RoundsAreSound' /\ TreeIsSound'
  BY <1>1, <1>10, LowerFromParentKeepsTree DEF TreeIsSound
<1>11. ASSUME NEW t \in Tasks, NEW e \in graph, Offer(t, e) \/ PullWord(t, e) \/ PushWord(t, e)
       PROVE  RoundsAreSound' /\ TreeIsSound'
  BY <1>1, <1>11, OfferKeepsTree, PullWordKeepsTree, PushWordKeepsTree DEF TreeIsSound
<1> QED BY <1>4, <1>5, <1>6, <1>7, <1>8, <1>9, <1>10, <1>11 DEF TreeNext

-----------------------------------------------------------------------------
(* What the searches promise follows. *)
LEMMA RoundsWhenSound ==
  ASSUME RoundsAreSound, phase = "top"
  PROVE  /\ \A v \in Vertices : Distance[v] = IF Hops[v] <= Settled THEN Hops[v] ELSE Unreached
         /\ mode = 0 => next_frontier = Ring(Level) /\ active = Beyond(Level) /\ Level \in Nat
         /\ mode = 1 => active = Beyond(round - 1)
         /\ mode >= 5 => {v \in next_frontier : Distance[v] = round} = Ring(round)
  BY DEF RoundsAreSound, TopIs, Exact

LEMMA SearchWhenSound == RoundsAreSound => SearchInvariant
<1> SUFFICES ASSUME RoundsAreSound, program = "search" PROVE SearchInvariant
  BY DEF SearchInvariant
<1>1. /\ Distance = dist /\ Level = round /\ ControlTypeOK /\ round \in Nat /\ stride \in Nat
      /\ dist \in [Vertices -> 0..Size \cup {Unreached}]
      /\ \A v \in Vertices : /\ dist[v] >= Hops[v] /\ dist[v] \in 0..Size \cup {Unreached}
                             /\ Hops[v] \in 0..(Size - 1) \cup {Unreached}
  BY SoundTypes DEF Distance, Level, DistancesFit
<1>2. SearchTypeOK
  BY <1>1 DEF SearchTypeOK, Size
<1>3. RoundsAreExact
  <2> SUFFICES ASSUME phase = "top" PROVE RoundsAreExact
    BY DEF RoundsAreExact
  <2>1. Beyond(round - 1) = {v \in Vertices : Hops[v] >= round}
    BY <1>1, VertexConstants DEF Beyond
  <2> QED BY <1>1, <2>1, RoundsWhenSound DEF RoundsAreExact, Settled, Ring, Beyond
<1>4. SearchStaysInWindow
  <2>1. ASSUME phase = "search", NEW v \in Vertices, dist[v] # Unreached
        PROVE  dist[v] <= WindowEnd /\ (dist[v] = WindowEnd => v \in next_frontier)
    <3>1. InWindow
      BY <2>1 DEF RoundsAreSound, WindowIs, WindowFacts
    <3> QED BY <1>1, <2>1, <3>1 DEF InWindow, Reached
  <2> QED BY <1>1, <2>1 DEF SearchStaysInWindow
<1>5. FindsDistances
  BY <1>1 DEF FindsDistances, RoundsAreSound, EndIs
<1> QED BY <1>2, <1>3, <1>4, <1>5 DEF SearchInvariant

LEMMA TreeWhenSound == RoundsAreSound /\ TreeIsSound => TreeInvariant /\ FindsTree
<1> SUFFICES ASSUME RoundsAreSound, TreeIsSound, program = "tree" PROVE TreeInvariant /\ FindsTree
  BY DEF TreeInvariant, FindsTree
<1>1. /\ WordsAreSound /\ ControlTypeOK /\ graph \in Graphs /\ round \in Nat /\ Level = round - 1
      /\ \A v \in Vertices : /\ Dist(v) = Distance[v] /\ Dist(v) \in Nat
                             /\ Hops[v] \in 0..(Size - 1) \cup {Unreached}
      /\ \A v \in Vertices \ {source} :
           Dist(v) # Unreached => <<Parent(v), v>> \in graph /\ Parent(v) \in Vertices
  BY WordFacts, SoundTypes DEF Level
<1>2. TreeTypeOK
  BY <1>1 DEF TreeTypeOK, WordsAreSound, IsOfEdge, Size
<1>3. TreeRoundsAreExact
  <2> SUFFICES ASSUME phase = "top" PROVE TreeRoundsAreExact
    BY DEF TreeRoundsAreExact
  <2>1. Beyond(round - 1) = {v \in Vertices : Hops[v] >= round}
    BY <1>1, VertexConstants DEF Beyond
  <2>2. mode < 5 => mode = 0 \/ mode = 1
    BY <1>1 DEF ControlTypeOK
  <2>3. mode < 5 => active = {v \in Vertices : Hops[v] >= round}
    BY <1>1, <2>1, <2>2, RoundsWhenSound
  <2>4. mode = 0 => next_frontier = Ring(round - 1)
    BY <1>1, RoundsWhenSound
  <2>5. mode >= 5 => {v \in next_frontier : Dist(v) = round} = Ring(round)
    <3>1. \A v \in next_frontier : Dist(v) = Distance[v]
      BY <1>1 DEF ControlTypeOK
    <3>2. {v \in next_frontier : Dist(v) = round} = {v \in next_frontier : Distance[v] = round}
      BY <3>1
    <3> QED BY <3>2, RoundsWhenSound
  <2>6. \A v \in Vertices : Dist(v) = IF Hops[v] <= Settled THEN Hops[v] ELSE Unreached
    BY <1>1, RoundsWhenSound
  <2> QED BY <2>3, <2>4, <2>5, <2>6 DEF TreeRoundsAreExact, Settled, Ring
<1>4. ParentsAreCloser
  BY <1>1 DEF WordsAreSound
<1>5. ASSUME phase = "ended"
      PROVE  /\ \A v \in Vertices : Dist(v) = Hops[v]
             /\ \A v \in Vertices \ {source} : Dist(v) # Unreached =>
                  <<Parent(v), v>> \in graph /\ Dist(v) = Dist(Parent(v)) + 1
  <2>1. \A v \in Vertices : Dist(v) = Hops[v]
    BY <1>1, <1>5 DEF RoundsAreSound, EndIs
  <2>2. ASSUME NEW v \in Vertices \ {source}, Dist(v) # Unreached
        PROVE  <<Parent(v), v>> \in graph /\ Dist(v) = Dist(Parent(v)) + 1
    <3> DEFINE p == Parent(v)
               e == <<p, v>>
    <3>1. e \in graph /\ p \in Vertices /\ e[1] = p /\ e[2] = v /\ Dist(p) < Dist(v)
      BY <1>1, <1>4, <2>2 DEF ParentsAreCloser
    <3>2. Hops[p] < Hops[v] /\ Hops[p] # Unreached
      <4> HIDE DEF p, e
      <4> QED BY <1>1, <2>1, <3>1, VertexConstants
    <3>3. Hops[v] <= Hops[p] + 1
      <4> HIDE DEF p, e
      <4> QED BY <1>1, <3>1, <3>2, HopsOver
    <3>4. Dist(v) = Dist(p) + 1
      <4> HIDE DEF p, e
      <4> QED BY <1>1, <2>1, <3>1, <3>2, <3>3, VertexConstants
    <3> QED BY <3>1, <3>4
  <2> QED BY <2>1, <2>2
<1> QED BY <1>2, <1>3, <1>4, <1>5 DEF TreeInvariant, FindsTree

(* The program that was called stays the same. *)
LEMMA SearchStays == SearchNext => program' = program
<1> SUFFICES ASSUME SearchNext PROVE program' = program
  OBVIOUS
<1>1. ToBottomUp \/ ToSearch \/ BottomUp => program' = program
  BY DEF ToBottomUp, ToSearch, BottomUp
<1>2. Break \/ TopDown \/ Pushed \/ Search \/ Searched \/ Stop => program' = program
  BY DEF Break, TopDown, Pushed, Search, Searched, Stop, control
<1>3. \A s \in frontier : Take(s) \/ Consume(s, dist[s]) => program' = program
  BY DEF Take, Consume
<1>4. ASSUME NEW t \in Tasks
      PROVE  /\ Claim(t) \/ EndJob(t) \/ LowerOwn(t) => program' = program
             /\ \A s \in Vertices : PopTop(t, s) => program' = program
  BY DEF Claim, EndJob, LowerOwn, Lower, PopTop
<1>5. ASSUME NEW t \in Tasks, NEW e \in graph, LookUp(t, e) \/ PullDist(t, e) \/ PushDist(t, e)
      PROVE  program' = program
  <2>1. CASE LookUp(t, e)
    BY <2>1 DEF LookUp, Look
  <2>2. CASE PullDist(t, e)
    BY <2>2 DEF PullDist, Pull
  <2>3. CASE PushDist(t, e)
    BY <2>3 DEF PushDist, Push
  <2> QED BY <1>5, <2>1, <2>2, <2>3
<1> QED BY <1>1, <1>2, <1>3, <1>4, <1>5 DEF SearchNext

LEMMA TreeStays == TreeNext => program' = program
<1> SUFFICES ASSUME TreeNext PROVE program' = program
  OBVIOUS
<1>1. TreeToBottomUp \/ TreeToSearch \/ TreeBottomUp => program' = program
  BY DEF TreeToBottomUp, TreeToSearch, TreeBottomUp
<1>2. Break \/ TopDown \/ Pushed \/ Search \/ Searched \/ Stop => program' = program
  BY DEF Break, TopDown, Pushed, Search, Searched, Stop, control
<1>3. \A s \in frontier : Take(s) \/ Consume(s, Dist(s)) => program' = program
  BY DEF Take, Consume
<1>4. ASSUME NEW t \in Tasks
      PROVE  /\ Claim(t) \/ EndJob(t) \/ LowerFromParent(t) => program' = program
             /\ \A s \in Vertices : PopTop(t, s) => program' = program
  BY DEF Claim, EndJob, LowerFromParent, Lower, PopTop
<1>5. ASSUME NEW t \in Tasks, NEW e \in graph, Offer(t, e) \/ PullWord(t, e) \/ PushWord(t, e)
      PROVE  program' = program
  <2>1. CASE Offer(t, e)
    BY <2>1 DEF Offer, Look
  <2>2. CASE PullWord(t, e)
    BY <2>2 DEF PullWord, Pull
  <2>3. CASE PushWord(t, e)
    BY <2>3 DEF PushWord, Push
  <2> QED BY <1>5, <2>1, <2>2, <2>3
<1> QED BY <1>1, <1>2, <1>3, <1>4, <1>5 DEF TreeNext

(* Whichever modes breadth_first_search goes through and however its local *)
(* searches run ahead of each other, rounds and windows stay exact, and it *)
(* ends with the distances of the definition.                              *)
THEOREM SearchIsCorrect == SearchSpec => []SearchInvariant
<1> DEFINE Inv == program = "search" /\ RoundsAreSound
<1>1. SearchInit => Inv
  BY SearchBeginsSound DEF SearchInit, Begin
<1>2. Inv /\ [SearchNext]_search_vars => Inv'
  <2> SUFFICES ASSUME Inv, [SearchNext]_search_vars PROVE Inv'
    OBVIOUS
  <2>1. CASE SearchNext
    <3>1. program' = program
      BY <2>1, SearchStays
    <3> QED BY <2>1, <3>1, SearchStepIsSound
  <2>2. CASE UNCHANGED search_vars
    <3>1. UNCHANGED control /\ program' = program /\ Distance' = Distance
      BY <2>2 DEF search_vars, control, Distance
    <3> QED BY <3>1, StopIsSound
  <2> QED BY <2>1, <2>2
<1>3. Inv => SearchInvariant
  BY SearchWhenSound
<1> QED BY <1>1, <1>2, <1>3, PTL DEF SearchSpec

LEMMA TreeStaysSound == TreeSpec => [](TreeInvariant /\ FindsTree)
<1> DEFINE Inv == program = "tree" /\ RoundsAreSound /\ TreeIsSound
<1>1. TreeInit => Inv
  <2> SUFFICES ASSUME TreeInit PROVE Inv
    OBVIOUS
  <2>1. program = "tree" /\ RoundsAreSound /\ \A t \in Tasks : job[t] = NoJob
    BY TreeBeginsSound DEF TreeInit, Begin
  <2>2. dist_and_parent = [v \in Vertices |-> IF v = source THEN <<0, Unreached>> ELSE Blank]
    BY DEF TreeInit
  <2>3. dist_and_parent \in [Vertices -> Words] /\ dist_and_parent[source] = <<0, Unreached>>
    <3>1. <<0, Unreached>> \in Words /\ Blank \in Words
      BY VertexConstants DEF Words, Blank
    <3> QED BY <2>2, <3>1, VertexConstants
  <2>4. \A v \in Vertices \ {source} : dist_and_parent[v] = Blank /\ Dist(v) = Unreached
    BY <2>2 DEF Blank, Dist
  <2>5. \A t \in Tasks : PulledFrom(t)
    BY <2>1 DEF PulledFrom, NoJob
  <2> QED BY <2>1, <2>3, <2>4, <2>5
          DEF TreeIsSound, WordsAreSound, WordsFit, IsOfEdge, ParentsAreCloser
<1>2. Inv /\ [TreeNext]_tree_vars => Inv'
  <2> SUFFICES ASSUME Inv, [TreeNext]_tree_vars PROVE Inv'
    OBVIOUS
  <2>1. CASE TreeNext
    <3>1. program' = program
      BY <2>1, TreeStays
    <3> QED BY <2>1, <3>1, TreeStepIsSound
  <2>2. CASE UNCHANGED tree_vars
    <3>1. UNCHANGED <<control, program, graph, job, dist_and_parent>>
      BY <2>2 DEF tree_vars, control
    <3>2. WordsAreSound' /\ Distance' = Distance /\ \A t \in Tasks : PulledFrom(t)'
      BY <3>1, WordsStay
    <3> QED BY <3>1, <3>2, StopIsSound DEF TreeIsSound
  <2> QED BY <2>1, <2>2
<1>3. Inv => TreeInvariant /\ FindsTree
  BY TreeWhenSound
<1> QED BY <1>1, <1>2, <1>3, PTL DEF TreeSpec

(* Distances and parents are lowered in one word: whichever local searches  *)
(* replace what others have just read, every parent of                      *)
(* breadth_first_search_tree is closer to the source than its child.        *)
THEOREM TreeIsKept == TreeSpec => []TreeInvariant
<1> QED BY TreeStaysSound, PTL

(* It ends as a tree of shortest paths. *)
THEOREM TreeIsFound == TreeSpec => []FindsTree
<1> QED BY TreeStaysSound, PTL

=============================================================================
