---------------------------- MODULE IndexMapProof ----------------------------
(***************************************************************************)
(* Proofs about IndexMap for every number of indices, every width of a     *)
(* word, with the layers they need, every largest value and every set of   *)
(* threads: after a repair the tree is exact, extract_min takes out what   *)
(* is at most its threshold and extract_prefix_min the prefix minima.      *)
(***************************************************************************)
EXTENDS IndexMap, WordsProof, FiniteSetTheorems

-----------------------------------------------------------------------------
(***************************************************************************)
(* The inductive invariant.  Dirty bits: a word of dirty bits has its bit  *)
(* in the layer above, or one thread is to set it.                         *)
(***************************************************************************)
HasDirty(k, p) == \E q \in dirty[k] : word_id(q) = p
Lacks(k, p) == HasDirty(k - 1, p) /\ p \notin dirty[k]
Owes(t, k, p) == climber[t].layer = k /\ Pos(k, climber[t].index) = p
Owed(k, p) ==
  /\ p \in dirty[k] => HasDirty(k - 1, p)
  /\ Lacks(k, p) <=> \E t \in Threads : Owes(t, k, p)
  /\ \A t, u \in Threads : Owes(t, k, p) /\ Owes(u, k, p) => t = u
AllOwed == \A k \in 1..Top : \A p \in 0..(Length(k) - 1) : Owed(k, p)

InsertedIsDirty ==
  /\ dirty[0] = inserted
  /\ \A t \in Threads : climber[t].layer \in 1..Top => climber[t].index \in inserted

(* Element i is marked for the next repair, or about to be. *)
Climbs(t, i) == climber[t].layer = 0 /\ climber[t].index = i
Marked(i) == i \in inserted \/ \E t \in Threads : Climbs(t, i)

PhasesAreApart ==
  /\ phase = "clean" => Resting /\ inserted = {} /\ \A k \in Levels : dirty[k] = {}
  /\ phase # "extract" => DOMAIN leaf = {} /\ called = {} /\ due = {}

(***************************************************************************)
(* The flags are exact for the elements of the last repair until the end   *)
(* of the extraction, and what is in the upper layers follows at all times *)
(* from the least values of layer 0.                                       *)
(***************************************************************************)
Present == held \cup called
FlagsAreExact == \A k \in Levels : flag[k] = {Pos(k, i) : i \in Present}

LeavesBelow(k, w) == {augval[0][word_id(i)] : i \in {j \in Indices : Pos(k + 1, j) = w}}
AugvalsAgree ==
  \A k \in Levels : \A w \in Nodes(k) : augval[k][w] = First({Max} \cup LeavesBelow(k, w))

NoneIsMax == \A w \in Nodes(0) : (\A i \in Present : word_id(i) # w) => augval[0][w] = Max

(***************************************************************************)
(* The least value of a node of layer 0 bounds its elements from below,    *)
(* those apart that are marked, and is not below all of them, unless the   *)
(* node is being extracted.                                                *)
(***************************************************************************)
LeastIsBelow == \A i \in held : ~ Marked(i) => augval[0][word_id(i)] <= sequence[i]
LeastIsReached ==
  \A w \in Nodes(0) :
    \/ w \in DOMAIN leaf
    \/ augval[0][w] = Max
    \/ \E i \in held \cup inserted : word_id(i) = w /\ sequence[i] <= augval[0][w]

(* An extraction: its tasks, what they have kept and what they still owe. *)
Enters(w, h) == IF Top = 0 THEN ~ empty ELSE w \in flag[1] /\ augval[0][w] <= h

LeafIsSound(w) ==
  /\ leaf[w].todo \cup leaf[w].kept = {i \in held : word_id(i) = w}
  /\ leaf[w].todo \cap leaf[w].kept = {}
  /\ leaf[w].keeping => leaf[w].todo # {} /\ First(leaf[w].todo) \notin due
  /\ leaf[w].kept \cap due = {}
  /\ leaf[w].aggregate = Max \/ \E i \in leaf[w].kept : sequence[i] <= leaf[w].aggregate
  /\ \A i \in leaf[w].kept : ~ Marked(i) => leaf[w].aggregate <= sequence[i]

Extraction ==
  phase = "extract" =>
    /\ \A w \in Nodes(0) : w \in DOMAIN leaf <=> Enters(w, threshold)
    /\ called \cap held = {}
    /\ \A w \in DOMAIN leaf : LeafIsSound(w)
    /\ \A i \in called \cup due : word_id(i) \in DOMAIN leaf
    /\ due \subseteq Present /\ \A i \in due : sequence[i] <= threshold
    /\ \A i \in held : ~ Marked(i) /\ sequence[i] <= threshold => i \in due

Marking == AllOwed /\ InsertedIsDirty
Summaries == FlagsAreExact /\ AugvalsAgree /\ NoneIsMax
Bounds == LeastIsBelow /\ LeastIsReached

Sound ==
  /\ TypeOK
  /\ Marking
  /\ PhasesAreApart
  /\ Summaries
  /\ Bounds
  /\ Extraction

-----------------------------------------------------------------------------
(* Least values. *)

LEMMA ValuesAre ==
  Max \in Nat /\ Max \in Values /\ Values \subseteq Nat /\ \A v \in Values : v <= Max /\ 0 <= v
BY MapAssumption DEF Priorities, Values

LEMMA LeastHas ==
  ASSUME NEW S \in SUBSET Values
  PROVE  LET v == First({Max} \cup S)
         IN  /\ v \in Values /\ v \in Nat /\ v <= Max
             /\ \A q \in S : v <= q
             /\ v = Max \/ v \in S
<1> DEFINE T == {Max} \cup S
<1>1. T \in SUBSET Nat /\ T # {} /\ T \subseteq Values /\ Max \in T
  BY ValuesAre
<1> HIDE DEF T
<1>2. First(T) \in T /\ First(T) \in Nat /\ \A q \in T : First(T) <= q
  BY <1>1, FirstIsLeast
<1> QED BY <1>1, <1>2 DEF T

LEMMA LeastIs ==
  ASSUME NEW S \in SUBSET Values, NEW v \in Values, \A q \in S : v <= q,
         v = Max \/ \E q \in S : q <= v
  PROVE  v = First({Max} \cup S)
<1>1. \A q \in S : q \in Nat
  BY ValuesAre
<1>2. v \in {Max} \cup S
  <2>1. ASSUME NEW q \in S, q <= v PROVE v \in S
    <3>1. v <= q /\ q \in Nat /\ v \in Nat
      BY <1>1, ValuesAre
    <3> QED BY <2>1, <3>1
  <2> QED BY <2>1
<1>3. {Max} \cup S \in SUBSET Nat /\ \A q \in {Max} \cup S : v <= q
  BY <1>1, ValuesAre
<1> QED BY <1>2, <1>3, FirstWhenLeast

(* The nodes above an index. *)
LEMMA NodesAbove ==
  ASSUME NEW i \in Indices
  PROVE  /\ word_id(i) \in Nodes(0) /\ word_id(i) = Pos(1, i) /\ i \in Nat
         /\ \A k \in Levels : /\ Pos(k + 1, i) \in Nodes(k) /\ Pos(k, i) \in Indices
                              /\ Pos(k, i) \in Nat /\ Pos(k, i) \in 0..(Length(k) - 1)
                              /\ word_id(Pos(k, i)) = Pos(k + 1, i)
<1>1. /\ Pos(0, i) = i /\ i \in Nat
      /\ \A k \in Levels : /\ Pos(k, i) \in Indices /\ Pos(k, i) \in 0..(Length(k) - 1)
                           /\ word_id(Pos(k, i)) = Pos(k + 1, i)
  BY WordsAssumption, PositionsInLayer
<1>2. \A k \in Levels : Pos(k, i) \in Nat /\ word_id(Pos(k, i)) \in Nodes(k)
  BY <1>1, WordsAssumption, WordsAreNodes DEF Nodes
<1>3. 0 \in Levels /\ 0 + 1 = 1
  BY WordsAssumption, Parameters
<1>4. word_id(i) = Pos(1, i) /\ word_id(i) \in Nodes(0)
  BY <1>1, <1>2, <1>3
<1> QED BY <1>1, <1>2, <1>4

LEMMA LevelsAre == Levels = 0..Top /\ Top \in Nat /\ Layers = Top + 1 /\ 0 \in Levels /\ Top \in Levels
BY WordsAssumption, Parameters

LEMMA TypesAre ==
  ASSUME TypeOK
  PROVE  /\ \A i \in Indices : sequence[i] \in Values /\ sequence[i] \in Nat
         /\ \A k \in Levels : /\ DOMAIN augval[k] = Nodes(k)
                              /\ \A w \in Nodes(k) : augval[k][w] \in Values /\ augval[k][w] \in Nat
BY ValuesAre DEF TypeOK

(* What the least values of the upper layers have to do with those below. *)
LEMMA AugvalsAbove ==
  ASSUME TypeOK, AugvalsAgree, NEW k \in Levels
  PROVE  /\ \A i \in Indices : augval[k][Pos(k + 1, i)] <= augval[0][word_id(i)]
         /\ \A w \in Nodes(k) : \/ augval[k][w] = Max
                                \/ \E i \in Indices : /\ Pos(k + 1, i) = w
                                                      /\ augval[k][w] = augval[0][word_id(i)]
<1>1. ASSUME NEW w \in Nodes(k)
      PROVE  /\ \A q \in LeavesBelow(k, w) : augval[k][w] <= q
             /\ augval[k][w] = Max \/ augval[k][w] \in LeavesBelow(k, w)
  <2>1. LeavesBelow(k, w) \in SUBSET Values
    <3>1. \A i \in Indices : augval[0][word_id(i)] \in Values
      BY TypesAre, NodesAbove, LevelsAre
    <3> QED BY <3>1 DEF LeavesBelow
  <2>2. augval[k][w] = First({Max} \cup LeavesBelow(k, w))
    BY DEF AugvalsAgree
  <2> QED BY <2>1, <2>2, LeastHas
<1>2. ASSUME NEW i \in Indices PROVE augval[k][Pos(k + 1, i)] <= augval[0][word_id(i)]
  <2>1. augval[0][word_id(i)] \in LeavesBelow(k, Pos(k + 1, i))
    BY DEF LeavesBelow
  <2> QED BY <1>1, <2>1, NodesAbove
<1> QED BY <1>1, <1>2 DEF LeavesBelow

(***************************************************************************)
(* Between the extractions every least value is a lower bound of the       *)
(* elements that are not marked, and reached by one that is held or        *)
(* inserted.                                                               *)
(***************************************************************************)
LEMMA AugvalsBound ==
  ASSUME TypeOK, AugvalsAgree, Bounds, NEW k \in Levels
  PROVE  /\ \A i \in held : ~ Marked(i) => augval[k][Pos(k + 1, i)] <= sequence[i]
         /\ DOMAIN leaf = {} =>
              \A w \in Nodes(k) :
                \/ augval[k][w] = Max
                \/ \E i \in held \cup inserted : Pos(k + 1, i) = w /\ sequence[i] <= augval[k][w]
<1>1. ASSUME NEW i \in held, ~ Marked(i) PROVE augval[k][Pos(k + 1, i)] <= sequence[i]
  <2>1. i \in Indices
    BY DEF TypeOK
  <2>2. augval[0][word_id(i)] <= sequence[i]
    BY <1>1 DEF Bounds, LeastIsBelow
  <2>3. augval[k][Pos(k + 1, i)] <= augval[0][word_id(i)]
    BY <2>1, AugvalsAbove
  <2>4. augval[k][Pos(k + 1, i)] \in Nat /\ augval[0][word_id(i)] \in Nat /\ sequence[i] \in Nat
    BY <2>1, TypesAre, NodesAbove, LevelsAre
  <2> QED BY <2>2, <2>3, <2>4
<1>2. ASSUME DOMAIN leaf = {}, NEW w \in Nodes(k), augval[k][w] # Max
      PROVE  \E i \in held \cup inserted : Pos(k + 1, i) = w /\ sequence[i] <= augval[k][w]
  <2>1. PICK j \in Indices : Pos(k + 1, j) = w /\ augval[k][w] = augval[0][word_id(j)]
    BY <1>2, AugvalsAbove
  <2>2. word_id(j) \in Nodes(0)
    BY NodesAbove
  <2>3. PICK i \in held \cup inserted : word_id(i) = word_id(j) /\ sequence[i] <= augval[0][word_id(j)]
    BY <1>2, <2>1, <2>2 DEF Bounds, LeastIsReached
  <2>4. i \in Indices
    BY DEF TypeOK
  <2>5. Pos(k + 1, i) = Pos(k + 1, j)
    BY <2>3, <2>4, WordsAssumption, TogetherAbove
  <2> QED BY <2>1, <2>3, <2>5
<1> QED BY <1>1, <1>2

(* The tree after a repair. *)
LEMMA CleanIsExact ==
  ASSUME Sound, phase = "clean"
  PROVE  TreeIsExact
<1>1. /\ TypeOK /\ AugvalsAgree /\ Bounds /\ FlagsAreExact
      /\ Resting /\ inserted = {} /\ called = {} /\ DOMAIN leaf = {}
      /\ \A k \in Levels : dirty[k] = {}
  BY DEF Sound, Summaries, PhasesAreApart
<1>2. \A i \in held : ~ Marked(i)
  <2>1. \A t \in Threads : climber[t].layer # 0
    BY <1>1, LevelsAre DEF Resting, Idle
  <2> QED BY <1>1, <2>1 DEF Marked, Climbs
<1>3. Present = held /\ held \subseteq Indices
  BY <1>1 DEF Present, TypeOK
<1>4. \A k \in Levels : flag[k] = {Pos(k, i) : i \in held}
  BY <1>1, <1>3 DEF FlagsAreExact
<1>5. flag[0] = held
  <2>1. \A i \in held : Pos(0, i) = i
    BY <1>3, WordsAssumption, PositionsInLayer
  <2>2. flag[0] = {Pos(0, i) : i \in held}
    BY <1>4, LevelsAre
  <2> QED BY <2>1, <2>2
<1>6. ASSUME NEW k \in Levels, k > 0 PROVE flag[k] = {word_id(p) : p \in flag[k - 1]}
  <2>1. k - 1 \in Levels /\ k - 1 + 1 = k
    BY <1>6, LevelsAre
  <2>2. \A i \in held : word_id(Pos(k - 1, i)) = Pos(k, i)
    BY <1>3, <2>1, NodesAbove
  <2> QED BY <1>4, <2>1, <2>2
<1>7. ASSUME NEW k \in Levels, NEW w \in Nodes(k)
      PROVE  augval[k][w] = First({Max} \cup {sequence[i] : i \in Below(k, w)})
  <2> DEFINE S == {sequence[i] : i \in Below(k, w)}
  <2>1. S \in SUBSET Values /\ augval[k][w] \in Values
    BY <1>1, <1>3, TypesAre DEF Below
  <2>2. \A q \in S : augval[k][w] <= q
    BY <1>1, <1>2, AugvalsBound DEF Below
  <2>3. augval[k][w] = Max \/ \E q \in S : q <= augval[k][w]
    BY <1>1, AugvalsBound DEF Below
  <2> HIDE DEF S
  <2>4. augval[k][w] = First({Max} \cup S)
    BY <2>1, <2>2, <2>3, LeastIs
  <2> QED BY <2>4 DEF S
<1> QED BY <1>1, <1>5, <1>6, <1>7 DEF TreeIsExact

-----------------------------------------------------------------------------
(***************************************************************************)
(* insert: one step adds one dirty bit, where it was 0 if not in layer 0,  *)
(* and goes on if the word had none.                                       *)
(***************************************************************************)
After(k, i) == IF HasDirty(k, Pos(k + 1, i)) \/ k = Top THEN Idle
               ELSE [index |-> i, layer |-> k + 1]

Adds(t, k, i) ==
  /\ k \in Levels /\ i \in Indices /\ climber[t] = [index |-> i, layer |-> k]
  /\ dirty' = [dirty EXCEPT ![k] = @ \cup {Pos(k, i)}]
  /\ climber' = [climber EXCEPT ![t] = After(k, i)]

LEMMA DirtyIs ==
  ASSUME TypeOK, NEW k \in Levels
  PROVE  /\ \A p \in dirty[k] : p \in Nat /\ p \in Indices /\ p \in 0..(Length(k) - 1)
         /\ \A w \in Nat : dirty[k] \cap OfWord(w) = {p \in dirty[k] : word_id(p) = w}
<1>1. \A p \in dirty[k] : p \in Indices /\ p \in 0..(Length(k) - 1)
  BY DEF TypeOK
<1>2. \A p \in dirty[k] : p \in Nat
  BY <1>1, NodesAbove
<1>3. \A w \in Nat : \A p \in dirty[k] : p \in OfWord(w) <=> word_id(p) = w
  BY <1>2, WordsAssumption, InWord
<1> QED BY <1>1, <1>2, <1>3

LEMMA InsertAdds ==
  ASSUME TypeOK, AllOwed, NEW t \in Threads, Insert(t)
  PROVE  Adds(t, climber[t].layer, climber[t].index)
<1> DEFINE k == climber[t].layer
           i == climber[t].index
           p == Pos(k, i)
<1>1. k < Layers /\ climber[t] \in [index : Indices, layer : 0..Layers]
  BY DEF Insert, TypeOK
<1>2. k \in Levels /\ i \in Indices /\ climber[t] = [index |-> i, layer |-> k]
  BY <1>1, LevelsAre
<1>3. dirty' = [dirty EXCEPT ![k] = IF k = 0 THEN @ \cup {i} ELSE AddBit(@, p)]
  BY DEF Insert
<1>4. climber' = [climber EXCEPT ![t] =
                    IF Stops(k, i) \/ k = Top THEN Idle ELSE [@ EXCEPT !.layer = k + 1]]
  BY DEF Insert
<1> HIDE DEF k, i
<1>5. p \in Nat /\ p \in 0..(Length(k) - 1) /\ Pos(k + 1, i) \in Nat
  <2>1. p \in Nat /\ p \in 0..(Length(k) - 1) /\ Pos(k + 1, i) \in Nodes(k)
    BY <1>2, NodesAbove
  <2>2. NumWords(k) \in Nat
    BY <1>2, WordsAssumption, WordsAreNodes
  <2> QED BY <2>1, <2>2 DEF Nodes
<1>6. dirty' = [dirty EXCEPT ![k] = @ \cup {p}]
  <2>1. CASE k = 0
    BY <1>2, <1>3, <2>1, WordsAssumption, PositionsInLayer
  <2>2. CASE k # 0
    <3>1. k \in 1..Top
      BY <1>2, <2>2, LevelsAre
    <3>2. Owes(t, k, p)
      BY DEF Owes, k, i
    <3>3. p \notin dirty[k]
      BY <1>5, <3>1, <3>2 DEF AllOwed, Owed, Lacks
    <3>4. AddBit(dirty[k], p) = dirty[k] \cup {p}
      BY <1>5, <3>3, WordsAssumption, AddNoCarry
    <3> QED BY <1>3, <2>2, <3>4
  <2> QED BY <2>1, <2>2
<1>7. Stops(k, i) <=> HasDirty(k, Pos(k + 1, i))
  BY <1>2, <1>5, DirtyIs DEF Stops, HasDirty
<1>8. [climber[t] EXCEPT !.layer = k + 1] = [index |-> i, layer |-> k + 1]
  BY <1>2
<1>9. climber' = [climber EXCEPT ![t] = After(k, i)]
  BY <1>4, <1>7, <1>8 DEF After
<1> QED BY <1>2, <1>6, <1>9 DEF Adds, k, i

LEMMA InsertMarks ==
  ASSUME TypeOK, AllOwed, NEW t \in Threads, NEW k, NEW i, Adds(t, k, i)
  PROVE  AllOwed'
<1>1. k \in Levels /\ i \in Indices /\ climber[t] = [index |-> i, layer |-> k]
  BY DEF Adds
<1> SUFFICES ASSUME NEW j \in 1..Top, NEW q \in 0..(Length(j) - 1) PROVE Owed(j, q)'
  BY DEF AllOwed
<1> DEFINE p == Pos(k, i)
           w == Pos(k + 1, i)
           stops == HasDirty(k, w)
<1>2. j \in Levels /\ j - 1 \in Levels /\ k # k + 1 /\ (j = k + 1 <=> j - 1 = k) /\ j # Layers /\ j # 0
  BY <1>1, LevelsAre
<1>3. word_id(p) = w
  BY <1>1, NodesAbove
<1>4. \A m \in Levels : dirty'[m] = IF m = k THEN dirty[k] \cup {p} ELSE dirty[m]
  BY <1>1 DEF Adds, TypeOK
<1> HIDE DEF p, w
<1>5. q \in dirty'[j] <=> q \in dirty[j] \/ (j = k /\ q = p)
  BY <1>2, <1>4
<1>6. HasDirty(j - 1, q)' <=> HasDirty(j - 1, q) \/ (j = k + 1 /\ q = w)
  <2>1. HasDirty(j - 1, q)' <=> \E x \in dirty'[j - 1] : word_id(x) = q
    BY DEF HasDirty
  <2>2. CASE j = k + 1
    <3>1. dirty'[j - 1] = dirty[j - 1] \cup {p}
      BY <1>2, <1>4, <2>2
    <3> QED BY <1>3, <2>1, <2>2, <3>1 DEF HasDirty
  <2>3. CASE j # k + 1
    <3>1. dirty'[j - 1] = dirty[j - 1]
      BY <1>2, <1>4, <2>3
    <3> QED BY <2>1, <2>3, <3>1 DEF HasDirty
  <2> QED BY <2>2, <2>3
<1>7. Owes(t, j, q) <=> j = k /\ q = p
  BY <1>1 DEF Owes, p
<1>8. Owes(t, j, q)' <=> j = k + 1 /\ q = w /\ ~ stops
  <2>1. climber'[t] = After(k, i)
    BY DEF Adds, TypeOK
  <2>2. CASE stops \/ k = Top
    <3>1. After(k, i) = Idle
      BY <2>2 DEF After, w
    <3>2. climber'[t].layer = Layers
      BY <2>1, <3>1 DEF Idle
    <3>3. k = Top => j # k + 1
      BY <1>2, LevelsAre
    <3> QED BY <1>2, <2>2, <3>2, <3>3 DEF Owes
  <2>3. CASE ~ (stops \/ k = Top)
    <3>1. After(k, i) = [index |-> i, layer |-> k + 1]
      BY <2>3 DEF After, w
    <3>2. climber'[t].layer = k + 1 /\ climber'[t].index = i
      BY <2>1, <3>1
    <3> QED BY <2>3, <3>2 DEF Owes, w
  <2> QED BY <2>2, <2>3
<1>9. \A u \in Threads : u # t => (Owes(u, j, q)' <=> Owes(u, j, q))
  BY DEF Owes, Adds, TypeOK
<1>10. /\ q \in dirty[j] => HasDirty(j - 1, q)
       /\ (HasDirty(j - 1, q) /\ q \notin dirty[j]) <=> \E u \in Threads : Owes(u, j, q)
       /\ \A u, v \in Threads : Owes(u, j, q) /\ Owes(v, j, q) => u = v
  BY DEF AllOwed, Owed, Lacks
<1>11. j = k + 1 /\ q = w => (stops <=> HasDirty(j - 1, q))
  BY <1>2
<1> HIDE DEF stops
<1>12. /\ q \in dirty'[j] => HasDirty(j - 1, q)'
       /\ (HasDirty(j - 1, q)' /\ q \notin dirty'[j]) <=> \E u \in Threads : Owes(u, j, q)'
       /\ \A u, v \in Threads : Owes(u, j, q)' /\ Owes(v, j, q)' => u = v
  <2>1. CASE j = k /\ q = p
    <3>1. Owes(t, j, q) /\ ~ Owes(t, j, q)' /\ q \in dirty'[j] /\ ~ (j = k + 1)
      BY <1>2, <1>5, <1>7, <1>8, <2>1
    <3>2. HasDirty(j - 1, q)' /\ \A u \in Threads : ~ Owes(u, j, q)'
      BY <1>6, <1>9, <1>10, <3>1
    <3> QED BY <3>1, <3>2
  <2>2. CASE j = k + 1 /\ q = w /\ ~ stops
    <3>1. Owes(t, j, q)' /\ HasDirty(j - 1, q)' /\ j # k
      BY <1>2, <1>6, <1>8, <2>2
    <3>2. ~ HasDirty(j - 1, q) /\ q \notin dirty[j] /\ q \notin dirty'[j]
      BY <1>5, <1>10, <1>11, <2>2, <3>1
    <3>3. \A u \in Threads : ~ Owes(u, j, q)
      BY <1>10, <3>2
    <3> QED BY <1>9, <3>1, <3>2, <3>3
  <2>3. CASE ~ (j = k /\ q = p) /\ ~ (j = k + 1 /\ q = w /\ ~ stops)
    <3>1. (HasDirty(j - 1, q)' <=> HasDirty(j - 1, q)) /\ (q \in dirty'[j] <=> q \in dirty[j])
      BY <1>5, <1>6, <1>11, <2>3
    <3>2. \A u \in Threads : Owes(u, j, q)' <=> Owes(u, j, q)
      BY <1>7, <1>8, <1>9, <2>3
    <3> QED BY <1>10, <3>1, <3>2
  <2> QED BY <2>1, <2>2, <2>3
<1> QED BY <1>12 DEF Owed, Lacks

(***************************************************************************)
(* Steps of threads that lower and insert leave the nodes alone.  Whatever *)
(* they lower is marked, and what is marked remains so.                    *)
(***************************************************************************)
Marks ==
  /\ UNCHANGED <<flag, augval, held, called, leaf, due, threshold>>
  /\ phase' = phase \/ (phase = "clean" /\ phase' = "user")
  /\ inserted \subseteq inserted'
  /\ \A i \in Indices : /\ sequence'[i] <= sequence[i] /\ sequence'[i] \in Nat
                        /\ ~ Marked(i)' => ~ Marked(i) /\ sequence'[i] = sequence[i]

LEMMA MarksKeep ==
  ASSUME Sound, Marks
  PROVE  Summaries' /\ Bounds' /\ Extraction'
<1>1. /\ TypeOK /\ UNCHANGED <<flag, augval, held, called, leaf, due, threshold>>
      /\ inserted \subseteq inserted'
      /\ held \subseteq Indices /\ inserted \subseteq Indices
  BY DEF Sound, Marks, TypeOK
<1>2. \A i \in Indices : /\ sequence'[i] <= sequence[i]
                         /\ sequence'[i] \in Nat /\ sequence[i] \in Nat
                         /\ ~ Marked(i)' => ~ Marked(i) /\ sequence'[i] = sequence[i]
  BY <1>1, TypesAre DEF Marks
<1>3. Summaries'
  <2>1. Summaries /\ flag' = flag /\ augval' = augval /\ Present' = Present
    BY <1>1 DEF Sound, Present
  <2>2. FlagsAreExact'
    BY <2>1 DEF Summaries, FlagsAreExact
  <2>3. AugvalsAgree'
    BY <2>1 DEF Summaries, AugvalsAgree, LeavesBelow
  <2>4. NoneIsMax'
    BY <2>1 DEF Summaries, NoneIsMax
  <2> QED BY <2>2, <2>3, <2>4 DEF Summaries
<1>4. LeastIsBelow'
  BY <1>1, <1>2 DEF Sound, Bounds, LeastIsBelow
<1>5. LeastIsReached'
  <2> SUFFICES ASSUME NEW w \in Nodes(0), w \notin DOMAIN leaf, augval[0][w] # Max
               PROVE  \E i \in held \cup inserted' : word_id(i) = w /\ sequence'[i] <= augval[0][w]
    BY <1>1 DEF LeastIsReached
  <2>1. PICK i \in held \cup inserted : word_id(i) = w /\ sequence[i] <= augval[0][w]
    BY DEF Sound, Bounds, LeastIsReached
  <2>2. augval[0][w] \in Nat /\ i \in Indices
    BY <1>1, TypesAre, LevelsAre
  <2>3. sequence'[i] <= augval[0][w]
    BY <1>2, <2>1, <2>2
  <2> QED BY <1>1, <2>1, <2>3
<1>6. Extraction'
  <2> SUFFICES ASSUME phase' = "extract" PROVE Extraction'
    BY DEF Extraction
  <2>1. phase = "extract"
    BY DEF Marks
  <2>2. /\ \A w \in Nodes(0) : w \in DOMAIN leaf <=> Enters(w, threshold)
        /\ called \cap held = {}
        /\ \A w \in DOMAIN leaf : LeafIsSound(w)
        /\ \A i \in called \cup due : word_id(i) \in DOMAIN leaf
        /\ due \subseteq Present /\ \A i \in due : sequence[i] <= threshold
        /\ \A i \in held : ~ Marked(i) /\ sequence[i] <= threshold => i \in due
    BY <2>1 DEF Sound, Extraction
  <2>3. \A w \in Nodes(0) : w \in DOMAIN leaf' <=> Enters(w, threshold)'
    BY <1>1, <2>2 DEF Enters, empty, Word
  <2>4. \A w \in DOMAIN leaf' : LeafIsSound(w)'
    <3> SUFFICES ASSUME NEW w \in DOMAIN leaf PROVE LeafIsSound(w)'
      BY <1>1
    <3>1. /\ LeafIsSound(w) /\ leaf' = leaf
          /\ leaf[w].kept \subseteq Indices /\ leaf[w].aggregate \in Nat
      BY <1>1, <2>2, ValuesAre DEF TypeOK
    <3>2. leaf[w].aggregate = Max \/ \E i \in leaf[w].kept : sequence'[i] <= leaf[w].aggregate
      BY <1>2, <3>1 DEF LeafIsSound
    <3>3. \A i \in leaf[w].kept : ~ Marked(i)' => leaf[w].aggregate <= sequence'[i]
      BY <1>2, <3>1 DEF LeafIsSound
    <3> QED BY <1>1, <3>1, <3>2, <3>3 DEF LeafIsSound
  <2>5. due' \subseteq Present' /\ \A i \in due' : sequence'[i] <= threshold'
    <3>1. threshold \in Nat /\ due \subseteq Indices
      BY <1>1, ValuesAre DEF TypeOK
    <3> QED BY <1>1, <1>2, <2>2, <3>1 DEF Present
  <2>6. \A i \in held' : ~ Marked(i)' /\ sequence'[i] <= threshold' => i \in due'
    BY <1>1, <1>2, <2>2
  <2> QED BY <1>1, <2>2, <2>3, <2>4, <2>5, <2>6 DEF Extraction
<1> QED BY <1>3, <1>4, <1>5, <1>6 DEF Bounds

LEMMA InsertSound ==
  ASSUME Sound, NEW t \in Threads, Insert(t)
  PROVE  Sound'
<1> DEFINE k == climber[t].layer
           i == climber[t].index
<1>1. TypeOK /\ AllOwed /\ InsertedIsDirty /\ PhasesAreApart
  BY DEF Sound, Marking
<1>2. Adds(t, k, i)
  BY <1>1, InsertAdds
<1>3. /\ inserted' = inserted \cup {i} /\ UNCHANGED <<sequence, flag, augval, phase, threshold, leaf>>
      /\ UNCHANGED <<held, called, due>>
  BY DEF Insert
<1> HIDE DEF k, i
<1>4. /\ k \in Levels /\ i \in Indices /\ climber[t] = [index |-> i, layer |-> k]
      /\ dirty' = [dirty EXCEPT ![k] = @ \cup {Pos(k, i)}]
      /\ climber' = [climber EXCEPT ![t] = After(k, i)]
  BY <1>2 DEF Adds
<1>5. After(k, i) \in [index : Indices, layer : 0..Layers] /\ After(k, i).layer # 0
  <2>1. Idle \in [index : Indices, layer : 0..Layers] /\ Idle.layer # 0
    BY WordsAssumption, Parameters DEF Idle
  <2>2. k # Top => k + 1 \in 0..Layers /\ k + 1 # 0
    BY <1>4, LevelsAre
  <2>3. k # Top => [index |-> i, layer |-> k + 1] \in [index : Indices, layer : 0..Layers]
    BY <1>4, <2>2
  <2> QED BY <2>1, <2>2, <2>3 DEF After
<1>6. TypeOK'
  <2>1. Pos(k, i) \in Indices /\ Pos(k, i) \in 0..(Length(k) - 1)
    BY <1>4, NodesAbove
  <2>2. dirty' \in [Levels -> SUBSET Indices] /\ inserted' \subseteq Indices
    BY <1>1, <1>3, <1>4, <2>1 DEF TypeOK
  <2>3. \A j \in Levels : flag'[j] \cup dirty'[j] \subseteq 0..(Length(j) - 1)
    BY <1>1, <1>3, <1>4, <2>1 DEF TypeOK
  <2>4. climber' \in [Threads -> [index : Indices, layer : 0..Layers]]
    BY <1>1, <1>4, <1>5 DEF TypeOK
  <2> QED BY <1>1, <1>3, <2>2, <2>3, <2>4 DEF TypeOK
<1>7. AllOwed'
  BY <1>1, <1>2, InsertMarks
<1>8. InsertedIsDirty'
  <2>1. dirty'[0] = inserted'
    <3>1. CASE k = 0
      BY <1>1, <1>3, <1>4, <3>1, WordsAssumption, PositionsInLayer DEF TypeOK, InsertedIsDirty
    <3>2. CASE k # 0
      <4>1. k \in 1..Top
        BY <1>4, <3>2, LevelsAre
      <4>2. i \in inserted
        <5>1. climber[t].layer = k /\ climber[t].index = i
          BY <1>4
        <5> QED BY <1>1, <4>1, <5>1 DEF InsertedIsDirty
      <4>3. dirty'[0] = dirty[0]
        BY <1>1, <1>4, <3>2, LevelsAre DEF TypeOK
      <4> QED BY <1>1, <1>3, <4>2, <4>3 DEF InsertedIsDirty
    <3> QED BY <3>1, <3>2
  <2>2. ASSUME NEW u \in Threads, climber'[u].layer \in 1..Top PROVE climber'[u].index \in inserted'
    <3>1. CASE u = t
      <4>1. climber'[t] = After(k, i)
        BY <1>1, <1>4 DEF TypeOK
      <4>2. After(k, i) # Idle
        BY <2>2, <3>1, <4>1, LevelsAre DEF Idle
      <4>3. climber'[t].index = i
        BY <4>1, <4>2 DEF After
      <4> QED BY <1>3, <3>1, <4>3
    <3>2. CASE u # t
      BY <1>1, <1>3, <1>4, <2>2, <3>2 DEF TypeOK, InsertedIsDirty
    <3> QED BY <3>1, <3>2
  <2> QED BY <2>1, <2>2 DEF InsertedIsDirty
<1>9. PhasesAreApart'
  <2>1. phase # "clean"
    <3>1. climber[t] # Idle
      BY <1>4, LevelsAre DEF Idle
    <3> QED BY <1>1, <3>1 DEF PhasesAreApart, Resting
  <2> QED BY <1>1, <1>3, <2>1 DEF PhasesAreApart
<1>10. Marks
  <2>1. ASSUME NEW x \in Indices, Marked(x) PROVE Marked(x)'
    <3>1. ASSUME NEW u \in Threads, Climbs(u, x), u # t PROVE Climbs(u, x)'
      BY <1>1, <1>4, <3>1 DEF Climbs, TypeOK
    <3>2. Climbs(t, x) => x = i
      BY <1>4 DEF Climbs
    <3> QED BY <1>3, <2>1, <3>1, <3>2 DEF Marked
  <2> QED BY <1>1, <1>3, <2>1, TypesAre DEF Marks
<1>11. Summaries' /\ Bounds' /\ Extraction'
  BY <1>10, MarksKeep
<1> QED BY <1>6, <1>7, <1>8, <1>9, <1>11 DEF Sound, Marking

LEMMA LowerSound ==
  ASSUME Sound, NEW t \in Threads, NEW i \in Indices, NEW v \in Values, Lower(t, i, v)
  PROVE  Sound'
<1>1. TypeOK /\ AllOwed /\ InsertedIsDirty /\ PhasesAreApart
  BY DEF Sound, Marking
<1>2. /\ climber[t] = Idle /\ v < sequence[i]
      /\ sequence' = [sequence EXCEPT ![i] = v]
      /\ climber' = [climber EXCEPT ![t] = [index |-> i, layer |-> 0]]
      /\ phase' = IF phase = "clean" THEN "user" ELSE phase
      /\ UNCHANGED <<flag, dirty, augval, threshold, leaf, held, inserted, called, due>>
  BY DEF Lower, tree, history
<1>3. [index |-> i, layer |-> 0] \in [index : Indices, layer : 0..Layers]
  BY LevelsAre
<1>4. TypeOK'
  BY <1>1, <1>2, <1>3 DEF TypeOK
<1>5. \A u \in Threads : climber'[u] = IF u = t THEN [index |-> i, layer |-> 0] ELSE climber[u]
  BY <1>1, <1>2 DEF TypeOK
<1>6. AllOwed'
  <2> SUFFICES ASSUME NEW j \in 1..Top, NEW q \in 0..(Length(j) - 1) PROVE Owed(j, q)'
    BY DEF AllOwed
  <2>1. Owed(j, q) /\ j # 0 /\ j # Layers
    BY <1>1, LevelsAre DEF AllOwed
  <2>2. \A u \in Threads : Owes(u, j, q)' <=> Owes(u, j, q)
    BY <1>2, <1>5, <2>1 DEF Owes, Idle
  <2>3. (q \in dirty[j])' <=> q \in dirty[j]
    BY <1>2
  <2>4. HasDirty(j - 1, q)' <=> HasDirty(j - 1, q)
    BY <1>2 DEF HasDirty
  <2> QED BY <2>1, <2>2, <2>3, <2>4 DEF Owed, Lacks
<1>7. InsertedIsDirty'
  BY <1>1, <1>2, <1>5 DEF InsertedIsDirty
<1>8. PhasesAreApart'
  BY <1>1, <1>2 DEF PhasesAreApart
<1>9. Marks
  <2>1. ASSUME NEW x \in Indices, ~ Marked(x)' PROVE ~ Marked(x) /\ sequence'[x] = sequence[x]
    <3>1. Climbs(t, i)'
      BY <1>5 DEF Climbs
    <3>2. x # i
      BY <2>1, <3>1 DEF Marked
    <3>3. \A u \in Threads : Climbs(u, x) => Climbs(u, x)'
      BY <1>2, <1>5, LevelsAre DEF Climbs, Idle
    <3> QED BY <1>1, <1>2, <2>1, <3>2, <3>3 DEF Marked, TypeOK
  <2>2. \A x \in Indices : sequence'[x] <= sequence[x] /\ sequence'[x] \in Nat
    BY <1>1, <1>2, <1>4, TypesAre, ValuesAre DEF TypeOK
  <2> QED BY <1>2, <2>1, <2>2 DEF Marks
<1>10. Summaries' /\ Bounds' /\ Extraction'
  BY <1>9, MarksKeep
<1> QED BY <1>4, <1>6, <1>7, <1>8, <1>10 DEF Sound, Marking

-----------------------------------------------------------------------------
(* The tasks of extract_min. *)

(* What a task does next, and what the steps of a task leave alone. *)
LEMMA TaskIs ==
  ASSUME Sound, NEW w \in DOMAIN leaf
  PROVE  /\ phase = "extract" /\ w \in Nodes(0)
         /\ leaf[w].todo \subseteq Indices /\ leaf[w].kept \subseteq Indices
         /\ leaf[w].keeping \in BOOLEAN /\ leaf[w].aggregate \in Values
         /\ leaf[w] = [todo |-> leaf[w].todo, keeping |-> leaf[w].keeping, kept |-> leaf[w].kept,
                       aggregate |-> leaf[w].aggregate]
         /\ leaf[w].todo # {} => LET i == First(leaf[w].todo)
                                 IN  /\ i \in leaf[w].todo /\ i \in Indices /\ i \in held
                                     /\ word_id(i) = w /\ i \notin leaf[w].kept
<1>1. leaf[w] \in [todo : SUBSET Indices, keeping : BOOLEAN, kept : SUBSET Indices, aggregate : Values]
  BY DEF Sound, TypeOK
<1>2. phase = "extract" /\ w \in Nodes(0)
  BY DEF Sound, PhasesAreApart, TypeOK
<1>3. LeafIsSound(w)
  BY <1>2 DEF Sound, Extraction
<1>4. ASSUME leaf[w].todo # {} PROVE First(leaf[w].todo) \in leaf[w].todo
  <2>1. leaf[w].todo \in SUBSET Nat
    BY <1>1, NodesAbove
  <2> QED BY <1>4, <2>1, FirstIsLeast
<1>5. /\ leaf[w].todo \subseteq Indices /\ leaf[w].kept \subseteq Indices
      /\ leaf[w].keeping \in BOOLEAN /\ leaf[w].aggregate \in Values
      /\ leaf[w] = [todo |-> leaf[w].todo, keeping |-> leaf[w].keeping, kept |-> leaf[w].kept,
                    aggregate |-> leaf[w].aggregate]
  BY <1>1
<1> QED BY <1>2, <1>3, <1>4, <1>5 DEF LeafIsSound

(* A step of the task of w: it may have called f on an element of w. *)
TaskSteps(w) ==
  /\ UNCHANGED <<sequence, flag, dirty, augval, phase, threshold, climber, inserted, due>>
  /\ DOMAIN leaf' = DOMAIN leaf /\ \A x \in DOMAIN leaf : x # w => leaf'[x] = leaf[x]
  /\ leaf'[w] \in [todo : SUBSET Indices, keeping : BOOLEAN, kept : SUBSET Indices, aggregate : Values]
  /\ \/ UNCHANGED <<called, held>>
     \/ \E i \in held : word_id(i) = w /\ called' = called \cup {i} /\ held' = held \ {i}

LEMMA TaskStepsSound ==
  ASSUME Sound, NEW w \in DOMAIN leaf, TaskSteps(w), LeafIsSound(w)'
  PROVE  Sound'
<1>1. /\ UNCHANGED <<sequence, flag, dirty, augval, phase, threshold, climber, inserted, due>>
      /\ DOMAIN leaf' = DOMAIN leaf /\ \A x \in DOMAIN leaf : x # w => leaf'[x] = leaf[x]
      /\ leaf'[w] \in [todo : SUBSET Indices, keeping : BOOLEAN, kept : SUBSET Indices,
                       aggregate : Values]
  BY DEF TaskSteps
<1>2. \/ UNCHANGED <<called, held>>
      \/ \E i \in held : word_id(i) = w /\ called' = called \cup {i} /\ held' = held \ {i}
  BY DEF TaskSteps
<1>3. /\ TypeOK /\ Marking /\ PhasesAreApart /\ Summaries /\ LeastIsBelow /\ LeastIsReached
      /\ phase = "extract" /\ w \in Nodes(0) /\ held \subseteq Indices /\ called \subseteq Indices
  BY TaskIs DEF Sound, Bounds, TypeOK
<1>4. /\ \A x \in Nodes(0) : x \in DOMAIN leaf <=> Enters(x, threshold)
      /\ called \cap held = {}
      /\ \A x \in DOMAIN leaf : LeafIsSound(x)
      /\ \A x \in called \cup due : word_id(x) \in DOMAIN leaf
      /\ due \subseteq Present /\ \A x \in due : sequence[x] <= threshold
      /\ \A x \in held : ~ Marked(x) /\ sequence[x] <= threshold => x \in due
  BY <1>3 DEF Sound, Extraction
<1>5. /\ Present' = Present /\ held' \subseteq held /\ called' \cap held' = {}
      /\ called' \subseteq Indices
      /\ \A x \in called' \cup due : word_id(x) \in DOMAIN leaf
  BY <1>2, <1>3, <1>4 DEF Present
<1>6. \A x : word_id(x) # w => (x \in held' <=> x \in held)
  BY <1>2
<1>7. \A x : Marked(x)' <=> Marked(x)
  BY <1>1 DEF Marked, Climbs
<1>8. TypeOK'
  <2>1. \A x \in DOMAIN leaf' : leaf'[x] \in [todo : SUBSET Indices, keeping : BOOLEAN,
                                             kept : SUBSET Indices, aggregate : Values]
    BY <1>1, <1>3 DEF TypeOK
  <2> QED BY <1>1, <1>3, <1>5, <2>1 DEF TypeOK
<1>9. Marking'
  <2>1. AllOwed'
    BY <1>1, <1>3 DEF Marking, AllOwed, Owed, Lacks, HasDirty, Owes
  <2>2. InsertedIsDirty'
    BY <1>1, <1>3 DEF Marking, InsertedIsDirty
  <2> QED BY <2>1, <2>2 DEF Marking
<1>10. PhasesAreApart'
  BY <1>1, <1>3 DEF PhasesAreApart
<1>11. Summaries'
  <2>1. FlagsAreExact'
    BY <1>1, <1>3, <1>5 DEF Summaries, FlagsAreExact
  <2>2. AugvalsAgree'
    BY <1>1, <1>3 DEF Summaries, AugvalsAgree, LeavesBelow
  <2>3. NoneIsMax'
    BY <1>1, <1>3, <1>5 DEF Summaries, NoneIsMax
  <2> QED BY <2>1, <2>2, <2>3 DEF Summaries
<1>12. LeastIsBelow'
  BY <1>1, <1>3, <1>5, <1>7 DEF LeastIsBelow
<1>13. LeastIsReached'
  <2> SUFFICES ASSUME NEW x \in Nodes(0), x \notin DOMAIN leaf, augval[0][x] # Max
               PROVE  \E i \in held' \cup inserted : word_id(i) = x /\ sequence[i] <= augval[0][x]
    BY <1>1 DEF LeastIsReached
  <2>1. PICK i \in held \cup inserted : word_id(i) = x /\ sequence[i] <= augval[0][x]
    BY <1>3 DEF LeastIsReached
  <2> QED BY <1>6, <2>1
<1>14. \A x \in DOMAIN leaf' : LeafIsSound(x)'
  <2> SUFFICES ASSUME NEW x \in DOMAIN leaf, x # w PROVE LeafIsSound(x)'
    BY <1>1
  <2>1. LeafIsSound(x) /\ leaf'[x] = leaf[x]
    BY <1>1, <1>4
  <2>2. {y \in held' : word_id(y) = x} = {y \in held : word_id(y) = x}
    BY <1>6
  <2> QED BY <1>1, <1>7, <2>1, <2>2 DEF LeafIsSound
<1>15. \A x \in Nodes(0) : x \in DOMAIN leaf' <=> Enters(x, threshold)'
  BY <1>1, <1>4 DEF Enters, empty, Word
<1>16. \A x \in held' : ~ Marked(x)' /\ sequence'[x] <= threshold' => x \in due'
  BY <1>1, <1>4, <1>5, <1>7
<1>17. Extraction'
  BY <1>1, <1>4, <1>5, <1>14, <1>15, <1>16 DEF Extraction
<1> QED BY <1>8, <1>9, <1>10, <1>11, <1>12, <1>13, <1>17 DEF Sound, Bounds

LEMMA LeafTestSound ==
  ASSUME Sound, NEW w \in DOMAIN leaf, LeafTest(w)
  PROVE  Sound'
<1> DEFINE i == First(leaf[w].todo)
<1>1. /\ leaf[w].todo # {} /\ ~ leaf[w].keeping
      /\ UNCHANGED <<sequence, flag, dirty, augval, phase, threshold, climber, inserted, due>>
      /\ IF Extracted(i)
           THEN /\ leaf' = [leaf EXCEPT ![w].todo = @ \ {i}]
                /\ called' = called \cup {i}
                /\ held' = held \ {i}
           ELSE /\ leaf' = [leaf EXCEPT ![w].keeping = TRUE]
                /\ UNCHANGED <<called, held>>
  BY DEF LeafTest, tree
<1>2. /\ phase = "extract"
      /\ leaf[w].todo \subseteq Indices /\ leaf[w].kept \subseteq Indices
      /\ leaf[w] = [todo |-> leaf[w].todo, keeping |-> leaf[w].keeping, kept |-> leaf[w].kept,
                    aggregate |-> leaf[w].aggregate]
      /\ leaf[w].keeping \in BOOLEAN /\ leaf[w].aggregate \in Values
      /\ i \in leaf[w].todo /\ i \in Indices /\ i \in held /\ word_id(i) = w /\ i \notin leaf[w].kept
  BY <1>1, TaskIs
<1>3. LeafIsSound(w) /\ \A x \in due : sequence[x] <= threshold
  BY <1>2 DEF Sound, Extraction
<1>4. Extracted(i) <=> sequence[i] <= threshold
  BY DEF Extracted
<1>5. \A x : Marked(x)' <=> Marked(x)
  BY <1>1 DEF Marked, Climbs
<1>6. leaf[w].todo # {} /\ First(leaf[w].todo) = i
  BY <1>1
<1> HIDE DEF i
<1>7. CASE Extracted(i)
  <2>1. leaf'[w] = [todo |-> leaf[w].todo \ {i}, keeping |-> leaf[w].keeping, kept |-> leaf[w].kept,
                    aggregate |-> leaf[w].aggregate]
    BY <1>1, <1>2, <1>7
  <2>2. held' = held \ {i}
    BY <1>1, <1>7
  <2>3. LeafIsSound(w)'
    BY <1>1, <1>2, <1>3, <1>5, <2>1, <2>2 DEF LeafIsSound
  <2>4. TaskSteps(w)
    BY <1>1, <1>2, <1>7, <2>1 DEF TaskSteps
  <2> QED BY <2>3, <2>4, TaskStepsSound
<1>8. CASE ~ Extracted(i)
  <2>1. leaf'[w] = [todo |-> leaf[w].todo, keeping |-> TRUE, kept |-> leaf[w].kept,
                    aggregate |-> leaf[w].aggregate]
    BY <1>1, <1>2, <1>8
  <2>2. held' = held /\ i \notin due
    BY <1>1, <1>3, <1>4, <1>8
  <2>3. LeafIsSound(w)'
    BY <1>1, <1>3, <1>5, <1>6, <2>1, <2>2 DEF LeafIsSound
  <2>4. TaskSteps(w)
    BY <1>1, <1>2, <1>8, <2>1 DEF TaskSteps
  <2> QED BY <2>3, <2>4, TaskStepsSound
<1> QED BY <1>7, <1>8

LEMMA LeafKeepSound ==
  ASSUME Sound, NEW w \in DOMAIN leaf, LeafKeep(w)
  PROVE  Sound'
<1> DEFINE i == First(leaf[w].todo)
           a == First({leaf[w].aggregate, sequence[i]})
<1>1. /\ leaf[w].keeping
      /\ leaf' = [leaf EXCEPT ![w] =
           [todo |-> @.todo \ {i}, keeping |-> FALSE, kept |-> @.kept \cup {i}, aggregate |-> a]]
      /\ UNCHANGED <<sequence, flag, dirty, augval, phase, threshold, climber, held, inserted, called, due>>
  BY DEF LeafKeep, tree, history
<1>2. LeafIsSound(w)
  BY TaskIs DEF Sound, Extraction
<1>3. /\ leaf[w].todo \subseteq Indices /\ leaf[w].kept \subseteq Indices
      /\ leaf[w].aggregate \in Values /\ leaf[w].todo # {}
      /\ i \in leaf[w].todo /\ i \in Indices /\ i \in held /\ word_id(i) = w /\ i \notin leaf[w].kept
      /\ i \notin due
  BY <1>1, <1>2, TaskIs DEF LeafIsSound
<1>4. sequence[i] \in Values /\ \A x \in leaf[w].kept : sequence[x] \in Nat
  BY <1>3, TypesAre DEF Sound
<1> HIDE DEF i
<1>5. /\ a \in {leaf[w].aggregate, sequence[i]} /\ a \in Values /\ a \in Nat /\ leaf[w].aggregate \in Nat
      /\ a <= leaf[w].aggregate /\ a <= sequence[i] /\ sequence[i] \in Nat /\ sequence[i] <= Max
  <2>1. {leaf[w].aggregate, sequence[i]} \in SUBSET Nat /\ {leaf[w].aggregate, sequence[i]} # {}
    BY <1>3, <1>4, ValuesAre
  <2>2. /\ a \in {leaf[w].aggregate, sequence[i]}
        /\ \A q \in {leaf[w].aggregate, sequence[i]} : a <= q
    BY <2>1, FirstIsLeast
  <2> QED BY <1>3, <1>4, <2>2, ValuesAre
<1> HIDE DEF a
<1>6. leaf'[w] = [todo |-> leaf[w].todo \ {i}, keeping |-> FALSE, kept |-> leaf[w].kept \cup {i},
                  aggregate |-> a]
  BY <1>1
<1>7. \A x : Marked(x)' <=> Marked(x)
  BY <1>1 DEF Marked, Climbs
<1>8. /\ leaf'[w].todo \cup leaf'[w].kept = {x \in held : word_id(x) = w}
      /\ leaf'[w].todo \cap leaf'[w].kept = {}
      /\ leaf'[w].kept \cap due = {} /\ ~ leaf'[w].keeping
  BY <1>2, <1>3, <1>6 DEF LeafIsSound
<1>9. a = Max \/ \E x \in leaf'[w].kept : sequence[x] <= a
  <2>1. CASE a = sequence[i]
    BY <1>5, <1>6, <2>1
  <2>2. CASE a = leaf[w].aggregate
    <3>1. a = Max \/ \E x \in leaf[w].kept : sequence[x] <= a
      BY <1>2, <2>2 DEF LeafIsSound
    <3> QED BY <1>6, <3>1
  <2> QED BY <1>5, <2>1, <2>2
<1>10. \A x \in leaf'[w].kept : ~ Marked(x) => a <= sequence[x]
  <2>1. \A x \in leaf[w].kept : ~ Marked(x) => leaf[w].aggregate <= sequence[x]
    BY <1>2 DEF LeafIsSound
  <2> QED BY <1>4, <1>5, <1>6, <2>1
<1>11. LeafIsSound(w)'
  BY <1>1, <1>6, <1>7, <1>8, <1>9, <1>10 DEF LeafIsSound
<1>12. TaskSteps(w)
  BY <1>1, <1>3, <1>5, <1>6 DEF TaskSteps
<1> QED BY <1>11, <1>12, TaskStepsSound

-----------------------------------------------------------------------------
(***************************************************************************)
(* repair.  No thread is on its way, so that each layer of dirty bits is   *)
(* exact for those below it, and repair reaches them all.                  *)
(***************************************************************************)
LEMMA DirtyIsExact ==
  ASSUME TypeOK, Marking, Resting
  PROVE  /\ \A k \in 1..Top : \A p \in 0..(Length(k) - 1) : p \in dirty[k] <=> HasDirty(k - 1, p)
         /\ \A k \in Levels : dirty[k] = {Pos(k, i) : i \in inserted}
<1>1. ASSUME NEW k \in 1..Top, NEW p \in 0..(Length(k) - 1) PROVE p \in dirty[k] <=> HasDirty(k - 1, p)
  <2>1. Owed(k, p)
    BY DEF Marking, AllOwed
  <2>2. \A t \in Threads : ~ Owes(t, k, p)
    BY LevelsAre DEF Resting, Idle, Owes
  <2> QED BY <2>1, <2>2 DEF Owed, Lacks
<1> DEFINE g == [k \in Levels |-> {Pos(k, i) : i \in inserted}]
<1>2. dirty[0] = inserted /\ inserted \subseteq Indices
  BY DEF Marking, InsertedIsDirty, TypeOK
<1>3. dirty[0] = g[0]
  <2>1. \A i \in inserted : Pos(0, i) = i
    BY <1>2, WordsAssumption, PositionsInLayer
  <2>2. g[0] = {Pos(0, i) : i \in inserted}
    BY LevelsAre
  <2> HIDE DEF g
  <2> QED BY <1>2, <2>1, <2>2
<1>4. ASSUME NEW k \in Levels, k # 0, dirty[k - 1] = g[k - 1] PROVE dirty[k] = g[k]
  <2>1. k \in 1..Top /\ k - 1 \in Levels /\ k - 1 + 1 = k
    BY <1>4, LevelsAre
  <2>2. dirty[k - 1] = {Pos(k - 1, i) : i \in inserted} /\ g[k] = {Pos(k, i) : i \in inserted}
    BY <1>4, <2>1
  <2>3. \A i \in inserted : word_id(Pos(k - 1, i)) = Pos(k, i) /\ Pos(k, i) \in 0..(Length(k) - 1)
    BY <1>2, <2>1, NodesAbove
  <2>4. \A p \in 0..(Length(k) - 1) : p \in dirty[k] <=> \E i \in inserted : Pos(k, i) = p
    BY <1>1, <2>1, <2>2, <2>3 DEF HasDirty
  <2>5. \A p \in dirty[k] : p \in 0..(Length(k) - 1)
    BY DirtyIs
  <2> HIDE DEF g
  <2> QED BY <2>2, <2>3, <2>4, <2>5
<1>5. \A k \in Levels : dirty[k] = g[k]
  <2> HIDE DEF g
  <2> QED BY <1>3, <1>4, WordsAssumption, UpFromLeaves
<1> QED BY <1>1, <1>5

LEMMA ReachedIs ==
  ASSUME TypeOK, Marking, Resting
  PROVE  /\ \A k \in Levels : Reached[k] = IF k = Top THEN {0} ELSE dirty[k + 1]
         /\ \A i \in inserted : \A k \in Levels : Pos(k + 1, i) \in Reached[k]
         /\ \A k \in Levels : NewlyDirty(k) = dirty[k]
<1> DEFINE Walks(f) == f = [k \in Levels |->
                              IF k = Top THEN {0} ELSE {p \in dirty[k + 1] : word_id(p) \in f[k + 1]}]
           g == [k \in Levels |-> IF k = Top THEN {0} ELSE dirty[k + 1]]
<1>1. \A k \in Levels : dirty[k] = {Pos(k, i) : i \in inserted}
  BY DirtyIsExact
<1>2. inserted \subseteq Indices
  BY DEF TypeOK
<1>3. \A i \in inserted : \A k \in Levels :
        /\ Pos(k + 1, i) \in g[k] /\ word_id(Pos(k, i)) = Pos(k + 1, i)
  <2> SUFFICES ASSUME NEW i \in inserted, NEW k \in Levels
               PROVE  Pos(k + 1, i) \in g[k] /\ word_id(Pos(k, i)) = Pos(k + 1, i)
    OBVIOUS
  <2>1. word_id(Pos(k, i)) = Pos(k + 1, i)
    BY <1>2, NodesAbove
  <2>2. CASE k = Top
    <3>1. Pos(k + 1, i) = 0
      BY <1>2, <2>2, LevelsAre, WordsAssumption, PositionsInLayer
    <3> QED BY <2>1, <2>2, <3>1
  <2>3. CASE k # Top
    <3>1. k + 1 \in Levels
      BY <2>3, LevelsAre
    <3> QED BY <1>1, <2>1, <2>3, <3>1
  <2> QED BY <2>2, <2>3
<1>4. Walks(g)
  <2>1. ASSUME NEW k \in Levels, k # Top PROVE dirty[k + 1] = {p \in dirty[k + 1] : word_id(p) \in g[k + 1]}
    <3>1. k + 1 \in Levels
      BY <2>1, LevelsAre
    <3>2. \A p \in dirty[k + 1] : word_id(p) \in g[k + 1]
      BY <1>1, <1>3, <3>1
    <3> HIDE DEF g
    <3> QED BY <3>2
  <2> QED BY <2>1, Zenon
<1>5. Walks(Reached)
  <2> HIDE DEF g
  <2> QED BY <1>4, Zenon DEF Reached
<1>6. \A k \in Levels : Reached[k] = g[k]
  <2>1. /\ \A k \in Levels : Reached[k] = IF k = Top THEN {0}
                                          ELSE {p \in dirty[k + 1] : word_id(p) \in Reached[k + 1]}
        /\ \A k \in Levels : g[k] = IF k = Top THEN {0}
                                    ELSE {p \in dirty[k + 1] : word_id(p) \in g[k + 1]}
    <3> HIDE DEF g
    <3> QED BY <1>4, <1>5
  <2> HIDE DEF g
  <2>2. Reached[Top] = g[Top]
    BY <2>1, LevelsAre
  <2>3. ASSUME NEW k \in Levels, k # Top, Reached[k + 1] = g[k + 1] PROVE Reached[k] = g[k]
    <3>1. /\ Reached[k] = {p \in dirty[k + 1] : word_id(p) \in Reached[k + 1]}
          /\ g[k] = {p \in dirty[k + 1] : word_id(p) \in g[k + 1]}
      BY <2>1, <2>3
    <3> QED BY <2>3, <3>1
  <2> QED BY <2>2, <2>3, WordsAssumption, DownFromTop
<1>7. \A k \in Levels : NewlyDirty(k) = dirty[k]
  BY <1>1, <1>3, <1>6 DEF NewlyDirty
<1> QED BY <1>3, <1>6, <1>7

(* The least value below a node, over the elements the repair will find. *)
Found == held \cup inserted
Exact(k, w) == First({Max} \cup {sequence[i] : i \in {j \in Found : Pos(k + 1, j) = w}})
Child(k, p) == IF k = 0 THEN sequence[p] ELSE Exact(k - 1, p)

LEMMA ExactHas ==
  ASSUME TypeOK, NEW k, NEW w
  PROVE  /\ Exact(k, w) \in Values
         /\ \A i \in Found : Pos(k + 1, i) = w => Exact(k, w) <= sequence[i]
         /\ \/ Exact(k, w) = Max
            \/ \E i \in Found : Pos(k + 1, i) = w /\ sequence[i] = Exact(k, w)
<1> DEFINE S == {sequence[i] : i \in {j \in Found : Pos(k + 1, j) = w}}
<1>1. S \in SUBSET Values
  BY TypesAre DEF Found, TypeOK
<1>2. Exact(k, w) = First({Max} \cup S)
  BY DEF Exact
<1>3. /\ Exact(k, w) \in Values /\ \A q \in S : Exact(k, w) <= q
      /\ Exact(k, w) = Max \/ Exact(k, w) \in S
  <2> HIDE DEF S
  <2> QED BY <1>1, <1>2, LeastHas
<1> QED BY <1>3

LEMMA ExactIs ==
  ASSUME TypeOK, NEW k, NEW w, NEW v \in Values,
         \A i \in Found : Pos(k + 1, i) = w => v <= sequence[i],
         v = Max \/ \E i \in Found : Pos(k + 1, i) = w /\ sequence[i] <= v
  PROVE  v = Exact(k, w)
<1> DEFINE S == {sequence[i] : i \in {j \in Found : Pos(k + 1, j) = w}}
<1>1. S \in SUBSET Values
  BY TypesAre DEF Found, TypeOK
<1>2. \A q \in S : v <= q
  OBVIOUS
<1>3. v = Max \/ \E q \in S : q <= v
  OBVIOUS
<1>4. v = First({Max} \cup S)
  <2> HIDE DEF S
  <2> QED BY <1>1, <1>2, <1>3, LeastIs
<1> QED BY <1>4 DEF Exact

LEMMA ChildHas ==
  ASSUME TypeOK, InsertedIsDirty, NEW k \in Levels, NEW p \in dirty[k]
  PROVE  /\ Child(k, p) \in Values /\ Child(k, p) \in Nat
         /\ \A i \in Found : Pos(k, i) = p => Child(k, p) <= sequence[i]
         /\ Child(k, p) = Max \/ \E i \in Found : Pos(k, i) = p /\ sequence[i] = Child(k, p)
<1>1. CASE k = 0
  <2>1. p \in Found /\ Found \subseteq Indices
    BY <1>1 DEF InsertedIsDirty, Found, TypeOK
  <2>2. \A i \in Found : Pos(0, i) = i
    BY <2>1, WordsAssumption, PositionsInLayer
  <2>3. Child(k, p) = sequence[p] /\ sequence[p] \in Values /\ sequence[p] \in Nat
    BY <1>1, <2>1, TypesAre DEF Child
  <2> QED BY <1>1, <2>1, <2>2, <2>3
<1>2. CASE k # 0
  <2>1. Child(k, p) = Exact(k - 1, p) /\ k - 1 + 1 = k
    BY <1>2, LevelsAre DEF Child
  <2>2. /\ Exact(k - 1, p) \in Values
        /\ \A i \in Found : Pos(k - 1 + 1, i) = p => Exact(k - 1, p) <= sequence[i]
        /\ \/ Exact(k - 1, p) = Max
           \/ \E i \in Found : Pos(k - 1 + 1, i) = p /\ sequence[i] = Exact(k - 1, p)
    BY ExactHas
  <2> QED BY <2>1, <2>2, ValuesAre
<1> QED BY <1>1, <1>2

LEMMA ExactStep ==
  ASSUME TypeOK, Marking, AugvalsAgree, Bounds, Resting, DOMAIN leaf = {},
         NEW k \in Levels, NEW w \in Nodes(k)
  PROVE  Exact(k, w) =
           IF w \notin Reached[k] THEN augval[k][w]
           ELSE First({Old(k, w)} \cup {Child(k, p) : p \in dirty[k] \cap OfWord(w)})
<1>1. /\ Found \subseteq Indices /\ inserted \subseteq Indices /\ held \subseteq Indices
      /\ InsertedIsDirty
  BY DEF Found, TypeOK, Marking
<1>2. /\ \A i \in inserted : \A j \in Levels : Pos(j + 1, i) \in Reached[j]
      /\ \A j \in Levels : dirty[j] = {Pos(j, i) : i \in inserted}
  BY ReachedIs, DirtyIsExact
<1>3. \A i : Marked(i) <=> i \in inserted
  BY LevelsAre DEF Marked, Climbs, Resting, Idle
<1>4. /\ \A i \in held : i \notin inserted => augval[k][Pos(k + 1, i)] <= sequence[i]
      /\ \/ augval[k][w] = Max
         \/ \E i \in Found : Pos(k + 1, i) = w /\ sequence[i] <= augval[k][w]
  BY <1>3, AugvalsBound DEF Found
<1>5. augval[k][w] \in Values /\ augval[k][w] \in Nat /\ w \in Nat
  <2>1. w \in Nat
    BY WordsAssumption, WordsAreNodes DEF Nodes
  <2> QED BY <2>1, TypesAre
<1>6. CASE w \notin Reached[k]
  <2>1. \A i \in Found : Pos(k + 1, i) = w => augval[k][w] <= sequence[i]
    BY <1>2, <1>4, <1>6 DEF Found
  <2>2. augval[k][w] = Exact(k, w)
    BY <1>4, <1>5, <2>1, ExactIs
  <2> QED BY <1>6, <2>2
<1>7. CASE w \in Reached[k]
  <2> DEFINE S == {Child(k, p) : p \in dirty[k] \cap OfWord(w)}
             u == First({Old(k, w)} \cup S)
  <2>1. dirty[k] \cap OfWord(w) = {p \in dirty[k] : word_id(p) = w}
    BY <1>5, DirtyIs
  <2>2. S \in SUBSET Nat /\ S \subseteq Values
    BY <1>1, ChildHas
  <2>3. {Old(k, w)} \cup S \in SUBSET Nat /\ {Old(k, w)} \cup S # {}
    BY <1>5, <2>2 DEF Old
  <2>4. /\ u \in {Old(k, w)} \cup S /\ u \in Nat
        /\ \A q \in {Old(k, w)} \cup S : u <= q
    <3> HIDE DEF S
    <3> QED BY <2>3, FirstIsLeast
  <2> HIDE DEF u
  <2>5. u \in Values
    BY <1>5, <2>2, <2>4 DEF Old
  <2>6. ASSUME NEW i \in Found, Pos(k + 1, i) = w PROVE u <= sequence[i]
    <3>0. sequence[i] \in Nat /\ i \in Indices
      BY <1>1, TypesAre
    <3>1. CASE i \in inserted
      <4> DEFINE p == Pos(k, i)
      <4>1. p \in dirty[k] /\ word_id(p) = w
        BY <1>2, <2>6, <3>0, <3>1, NodesAbove
      <4>2. Child(k, p) <= sequence[i] /\ Child(k, p) \in Nat
        BY <1>1, <4>1, ChildHas
      <4>3. Child(k, p) \in S
        BY <2>1, <4>1
      <4> QED BY <2>4, <3>0, <4>2, <4>3
    <3>2. CASE i \notin inserted
      <4>1. augval[k][w] <= sequence[i] /\ u <= augval[k][w]
        BY <1>4, <2>4, <2>6, <3>2 DEF Found, Old
      <4> QED BY <1>5, <2>4, <3>0, <4>1
    <3> QED BY <3>1, <3>2
  <2>7. u = Max \/ \E i \in Found : Pos(k + 1, i) = w /\ sequence[i] <= u
    <3>1. CASE u = Old(k, w)
      BY <1>4, <3>1 DEF Old
    <3>2. CASE u \in S
      <4>1. PICK p \in dirty[k] : word_id(p) = w /\ u = Child(k, p)
        BY <2>1, <3>2
      <4>2. Child(k, p) = Max \/ \E i \in Found : Pos(k, i) = p /\ sequence[i] = Child(k, p)
        BY <1>1, ChildHas
      <4>3. \A i \in Found : Pos(k, i) = p => Pos(k + 1, i) = w
        BY <1>1, <4>1, NodesAbove
      <4> QED BY <2>4, <4>1, <4>2, <4>3
    <3> QED BY <2>4, <3>1, <3>2
  <2>8. u = Exact(k, w)
    BY <2>5, <2>6, <2>7, ExactIs
  <2> QED BY <1>7, <2>8 DEF u
<1> QED BY <1>6, <1>7

LEMMA RepairedIs ==
  ASSUME TypeOK, Marking, AugvalsAgree, Bounds, Resting, DOMAIN leaf = {}
  PROVE  \A k \in Levels : Repaired[k] = [w \in Nodes(k) |-> Exact(k, w)]
<1> DEFINE Step(k, w, f) ==
             IF w \notin Reached[k] THEN augval[k][w]
             ELSE First({Old(k, w)} \cup {IF k = 0 THEN sequence[p] ELSE f[k - 1][p] :
                                            p \in dirty[k] \cap OfWord(w)})
           Repairs(f) == f = [k \in Levels |-> [w \in Nodes(k) |-> Step(k, w, f)]]
           g == [k \in Levels |-> [w \in Nodes(k) |-> Exact(k, w)]]
<1>1. ASSUME NEW k \in Levels, NEW w \in Nodes(k), NEW f, k = 0 \/ f[k - 1] = g[k - 1]
      PROVE  Step(k, w, f) = Exact(k, w)
  <2>1. ASSUME NEW p \in dirty[k]
        PROVE  (IF k = 0 THEN sequence[p] ELSE f[k - 1][p]) = Child(k, p)
    <3>1. CASE k = 0
      BY <3>1 DEF Child
    <3>2. CASE k # 0
      <4>1. k - 1 \in Levels /\ k - 1 + 1 = k
        BY <3>2, LevelsAre
      <4>2. p \in Nodes(k - 1)
        BY <4>1, DirtyIs, WordsAssumption, WordsAreNodes DEF Nodes
      <4>3. f[k - 1][p] = Exact(k - 1, p)
        BY <1>1, <3>2, <4>1, <4>2
      <4> QED BY <3>2, <4>3 DEF Child
    <3> QED BY <3>1, <3>2
  <2>2. {IF k = 0 THEN sequence[p] ELSE f[k - 1][p] : p \in dirty[k] \cap OfWord(w)}
          = {Child(k, p) : p \in dirty[k] \cap OfWord(w)}
    BY <2>1
  <2>3. Exact(k, w) =
           IF w \notin Reached[k] THEN augval[k][w]
           ELSE First({Old(k, w)} \cup {Child(k, p) : p \in dirty[k] \cap OfWord(w)})
    BY ExactStep
  <2> QED BY <2>2, <2>3
<1>2. Repairs(g)
  <2>1. ASSUME NEW k \in Levels PROVE g[k] = [w \in Nodes(k) |-> Step(k, w, g)]
    <3>1. \A w \in Nodes(k) : Step(k, w, g) = Exact(k, w)
      BY <1>1
    <3> HIDE DEF Step
    <3> QED BY <3>1
  <2>2. g = [k \in Levels |-> g[k]]
    OBVIOUS
  <2> HIDE DEF g, Step
  <2> QED BY <2>1, <2>2
<1>3. Repairs(Repaired)
  <2> HIDE DEF g
  <2>1. \E f : Repairs(f)
    BY <1>2
  <2>2. Repaired = CHOOSE f : Repairs(f)
    BY Zenon DEF Repaired
  <2> HIDE DEF Repairs
  <2>3. Repairs(CHOOSE f : Repairs(f))
    BY <2>1, Zenon
  <2> QED BY <2>2, <2>3, Zenon
<1>4. \A k \in Levels : Repaired[k] = [w \in Nodes(k) |-> Step(k, w, Repaired)]
  <2> HIDE DEF Step
  <2> QED BY <1>3
<1>5. \A k \in Levels : k = 0 \/ Repaired[k - 1] = g[k - 1] => Repaired[k] = g[k]
  <2> SUFFICES ASSUME NEW k \in Levels, k = 0 \/ Repaired[k - 1] = g[k - 1] PROVE Repaired[k] = g[k]
    OBVIOUS
  <2>1. \A w \in Nodes(k) : Step(k, w, Repaired) = Exact(k, w)
    BY <1>1
  <2>2. g[k] = [w \in Nodes(k) |-> Exact(k, w)]
    OBVIOUS
  <2> HIDE DEF Step, g
  <2> QED BY <1>4, <2>1, <2>2
<1>6. \A k \in Levels : Repaired[k] = g[k]
  <2> HIDE DEF g
  <2> QED BY <1>5, WordsAssumption, UpFromLeaves, LevelsAre
<1> QED BY <1>6

LEMMA RepairSound ==
  ASSUME Sound, Repair
  PROVE  Sound'
<1>1. /\ phase = "user" /\ Resting /\ phase' = "clean"
      /\ flag' = [k \in Levels |-> flag[k] \cup NewlyDirty(k)]
      /\ dirty' = [k \in Levels |-> dirty[k] \ NewlyDirty(k)]
      /\ augval' = Repaired
      /\ held' = Found /\ inserted' = {}
      /\ UNCHANGED <<sequence, threshold, leaf, climber, called, due>>
  BY DEF Repair, repair, Found
<1>2. /\ TypeOK /\ Marking /\ PhasesAreApart /\ AugvalsAgree /\ Bounds /\ FlagsAreExact
      /\ DOMAIN leaf = {} /\ called = {} /\ due = {} /\ Found \subseteq Indices /\ held \subseteq Indices
  BY <1>1 DEF Sound, Summaries, PhasesAreApart, Found, TypeOK
<1>3. \A k \in Levels : augval'[k] = [w \in Nodes(k) |-> Exact(k, w)]
  BY <1>1, <1>2, RepairedIs
<1>4. \A k \in Levels : dirty'[k] = {} /\ flag'[k] = {Pos(k, i) : i \in Found}
  <2> SUFFICES ASSUME NEW k \in Levels PROVE dirty'[k] = {} /\ flag'[k] = {Pos(k, i) : i \in Found}
    OBVIOUS
  <2>1. NewlyDirty(k) = dirty[k] /\ dirty[k] = {Pos(k, i) : i \in inserted}
    BY <1>1, <1>2, ReachedIs, DirtyIsExact
  <2>2. flag[k] = {Pos(k, i) : i \in held}
    BY <1>2 DEF FlagsAreExact, Present
  <2> QED BY <1>1, <2>1, <2>2 DEF Found
<1>5. \A k \in Levels : \A w \in Nodes(k) :
        /\ augval'[k][w] = Exact(k, w) /\ Exact(k, w) \in Values /\ Exact(k, w) \in Nat
        /\ \A i \in Found : Pos(k + 1, i) = w => Exact(k, w) <= sequence[i]
        /\ Exact(k, w) = Max \/ \E i \in Found : Pos(k + 1, i) = w /\ sequence[i] = Exact(k, w)
  <2> SUFFICES ASSUME NEW k \in Levels, NEW w \in Nodes(k)
               PROVE  /\ augval'[k][w] = Exact(k, w) /\ Exact(k, w) \in Values /\ Exact(k, w) \in Nat
                      /\ \A i \in Found : Pos(k + 1, i) = w => Exact(k, w) <= sequence[i]
                      /\ \/ Exact(k, w) = Max
                         \/ \E i \in Found : Pos(k + 1, i) = w /\ sequence[i] = Exact(k, w)
    OBVIOUS
  <2>1. augval'[k][w] = Exact(k, w)
    BY <1>3
  <2>2. /\ Exact(k, w) \in Values
        /\ \A i \in Found : Pos(k + 1, i) = w => Exact(k, w) <= sequence[i]
        /\ \/ Exact(k, w) = Max
           \/ \E i \in Found : Pos(k + 1, i) = w /\ sequence[i] = Exact(k, w)
    BY <1>2, ExactHas
  <2> QED BY <2>1, <2>2, ValuesAre
<1>6. \A i \in Indices : /\ word_id(i) \in Nodes(0) /\ word_id(i) = Pos(0 + 1, i)
                         /\ \A k \in Levels : /\ Pos(k + 1, i) \in Nodes(k) /\ Pos(k, i) \in Indices
                                              /\ Pos(k, i) \in 0..(Length(k) - 1)
  BY NodesAbove, LevelsAre
<1>13. \A i \in Indices :
         LET e == Exact(0, word_id(i))
         IN  /\ augval'[0][word_id(i)] = e /\ e \in Values /\ e \in Nat
             /\ \A j \in Found : word_id(j) = word_id(i) => e <= sequence[j]
             /\ e = Max \/ \E j \in Found : word_id(j) = word_id(i) /\ sequence[j] = e
  <2> SUFFICES ASSUME NEW i \in Indices
               PROVE  LET e == Exact(0, word_id(i))
                      IN  /\ augval'[0][word_id(i)] = e /\ e \in Values /\ e \in Nat
                          /\ \A j \in Found : word_id(j) = word_id(i) => e <= sequence[j]
                          /\ e = Max \/ \E j \in Found : word_id(j) = word_id(i) /\ sequence[j] = e
    OBVIOUS
  <2>1. word_id(i) \in Nodes(0) /\ 0 \in Levels /\ \A j \in Found : word_id(j) = Pos(0 + 1, j)
    BY <1>2, <1>6, LevelsAre
  <2> QED BY <1>5, <2>1
<1>7. TypeOK'
  <2>1. flag' \in [Levels -> SUBSET Indices] /\ dirty' \in [Levels -> SUBSET Indices]
    <3>1. \A k \in Levels : flag'[k] \subseteq Indices
      BY <1>2, <1>4, <1>6
    <3>2. flag' = [k \in Levels |-> flag'[k]] /\ dirty' = [k \in Levels |-> dirty'[k]]
      BY <1>1
    <3> QED BY <1>4, <3>1, <3>2
  <2>2. \A k \in Levels : flag'[k] \cup dirty'[k] \subseteq 0..(Length(k) - 1)
    BY <1>2, <1>4, <1>6
  <2>3. \A k \in Levels : augval'[k] \in [Nodes(k) -> Values]
    BY <1>3, <1>5
  <2> QED BY <1>1, <1>2, <2>1, <2>2, <2>3 DEF TypeOK
<1>8. Marking'
  <2>1. AllOwed'
    <3> SUFFICES ASSUME NEW k \in 1..Top, NEW p \in 0..(Length(k) - 1) PROVE Owed(k, p)'
      BY DEF AllOwed
    <3>1. k \in Levels /\ k - 1 \in Levels
      BY LevelsAre
    <3>2. dirty'[k] = {} /\ ~ HasDirty(k - 1, p)'
      BY <1>4, <3>1 DEF HasDirty
    <3>3. \A t \in Threads : ~ Owes(t, k, p)'
      BY <1>1, LevelsAre DEF Resting, Idle, Owes
    <3> QED BY <3>2, <3>3 DEF Owed, Lacks
  <2>2. InsertedIsDirty'
    BY <1>1, <1>4, LevelsAre DEF InsertedIsDirty, Resting, Idle
  <2> QED BY <2>1, <2>2 DEF Marking
<1>9. PhasesAreApart'
  BY <1>1, <1>2, <1>4 DEF PhasesAreApart, Resting
<1>10. Summaries'
  <2>1. Present' = Found
    BY <1>1, <1>2 DEF Present
  <2>2. FlagsAreExact'
    BY <1>4, <2>1 DEF FlagsAreExact
  <2>3. AugvalsAgree'
    <3> SUFFICES ASSUME NEW k \in Levels, NEW w \in Nodes(k)
                 PROVE  augval'[k][w] = First({Max} \cup LeavesBelow(k, w)')
      BY DEF AugvalsAgree
    <3> DEFINE S == {Exact(0, word_id(i)) : i \in {j \in Indices : Pos(k + 1, j) = w}}
    <3>1. LeavesBelow(k, w)' = S
      BY <1>13 DEF LeavesBelow
    <3>2. S \in SUBSET Values
      BY <1>13
    <3>3. ASSUME NEW i \in Indices, Pos(k + 1, i) = w PROVE Exact(k, w) <= Exact(0, word_id(i))
      <4>1. CASE Exact(0, word_id(i)) = Max
        BY <1>5, <4>1, ValuesAre
      <4>2. CASE Exact(0, word_id(i)) # Max
        <5>1. PICK j \in Found : word_id(j) = word_id(i) /\ sequence[j] = Exact(0, word_id(i))
          BY <1>13, <4>2
        <5>2. Pos(k + 1, j) = w
          BY <1>2, <3>3, <5>1, WordsAssumption, TogetherAbove
        <5> QED BY <1>5, <5>1, <5>2
      <4> QED BY <4>1, <4>2
    <3>4. \A q \in S : Exact(k, w) <= q
      BY <3>3
    <3>5. Exact(k, w) = Max \/ \E q \in S : q <= Exact(k, w)
      <4>1. ASSUME NEW i \in Found, Pos(k + 1, i) = w, sequence[i] = Exact(k, w)
            PROVE  Exact(0, word_id(i)) \in S /\ Exact(0, word_id(i)) <= Exact(k, w)
        <5>1. Exact(0, word_id(i)) \in S /\ Exact(0, word_id(i)) <= sequence[i]
          BY <1>2, <1>13, <4>1
        <5> QED BY <4>1, <5>1
      <4> QED BY <1>5, <4>1
    <3> HIDE DEF S
    <3>6. Exact(k, w) = First({Max} \cup S)
      BY <1>5, <3>2, <3>4, <3>5, LeastIs
    <3> QED BY <1>5, <3>1, <3>6
  <2>4. NoneIsMax'
    BY <1>2, <1>5, <1>6, <2>1, LevelsAre DEF NoneIsMax
  <2> QED BY <2>2, <2>3, <2>4 DEF Summaries
<1>11. Bounds'
  <2>1. LeastIsBelow'
    BY <1>1, <1>2, <1>13 DEF LeastIsBelow
  <2>2. LeastIsReached'
    <3> SUFFICES ASSUME NEW w \in Nodes(0)
                 PROVE  augval'[0][w] = Max \/ \E i \in Found : word_id(i) = w /\ sequence[i] <= augval'[0][w]
      BY <1>1 DEF LeastIsReached
    <3>1. /\ augval'[0][w] = Exact(0, w) /\ Exact(0, w) \in Nat
          /\ Exact(0, w) = Max \/ \E i \in Found : Pos(0 + 1, i) = w /\ sequence[i] = Exact(0, w)
      BY <1>5, LevelsAre
    <3> QED BY <1>2, <1>6, <3>1
  <2> QED BY <2>1, <2>2 DEF Bounds
<1>12. Extraction'
  BY <1>1 DEF Extraction
<1> QED BY <1>7, <1>8, <1>9, <1>10, <1>11, <1>12 DEF Sound

-----------------------------------------------------------------------------
(* extract_min: the nodes it enters. *)

LEMMA EmptyIs ==
  ASSUME TypeOK, FlagsAreExact
  PROVE  empty <=> Present = {}
<1>1. flag[Top] = {Pos(Top, i) : i \in Present} /\ Present \subseteq Indices
  BY LevelsAre DEF FlagsAreExact, Present, TypeOK
<1>2. \A i \in Present : Pos(Top, i) \in OfWord(0)
  <2> SUFFICES ASSUME NEW i \in Present PROVE Pos(Top, i) \in OfWord(0)
    OBVIOUS
  <2>1. Pos(Top, i) \in Nat /\ word_id(Pos(Top, i)) = Pos(Top + 1, i)
    BY <1>1, LevelsAre, NodesAbove
  <2>2. Pos(Top + 1, i) = 0
    BY <1>1, LevelsAre, WordsAssumption, PositionsInLayer
  <2> QED BY <2>1, <2>2, WordsAssumption, InWord
<1> QED BY <1>1, <1>2 DEF empty, Word

LEMMA WordIs ==
  ASSUME TypeOK, FlagsAreExact, NEW k \in Levels, NEW w \in Nodes(k)
  PROVE  /\ w \in Nat
         /\ Word(k, w) = {p \in flag[k] : word_id(p) = w}
         /\ \A p : p \in Word(k, w) <=> \E i \in Present : Pos(k, i) = p /\ Pos(k + 1, i) = w
<1>1. w \in Nat
  BY WordsAssumption, WordsAreNodes DEF Nodes
<1>2. flag[k] = {Pos(k, i) : i \in Present} /\ Present \subseteq Indices
  BY DEF FlagsAreExact, Present, TypeOK
<1>3. \A i \in Present : Pos(k, i) \in Nat /\ word_id(Pos(k, i)) = Pos(k + 1, i)
  BY <1>2, NodesAbove
<1>4. \A p \in flag[k] : p \in OfWord(w) <=> word_id(p) = w
  BY <1>1, <1>2, <1>3, WordsAssumption, InWord
<1> QED BY <1>1, <1>2, <1>3, <1>4 DEF Word

LEMMA AugvalsFall ==
  ASSUME TypeOK, AugvalsAgree, NEW k \in Levels, k # Top, NEW i \in Indices
  PROVE  augval[k + 1][Pos(k + 1 + 1, i)] <= augval[k][Pos(k + 1, i)]
<1>1. k + 1 \in Levels /\ Pos(k + 1, i) \in Nodes(k) /\ Pos(k + 1 + 1, i) \in Nodes(k + 1)
  <2>1. k + 1 \in Levels
    BY LevelsAre
  <2> QED BY <2>1, NodesAbove
<1>2. /\ augval[k + 1][Pos(k + 1 + 1, i)] \in Nat /\ augval[k + 1][Pos(k + 1 + 1, i)] <= Max
      /\ augval[k][Pos(k + 1, i)] \in Nat
  BY <1>1, TypesAre, ValuesAre
<1>3. CASE augval[k][Pos(k + 1, i)] = Max
  BY <1>2, <1>3
<1>4. ASSUME NEW j \in Indices, Pos(k + 1, j) = Pos(k + 1, i),
             augval[k][Pos(k + 1, i)] = augval[0][word_id(j)]
      PROVE  augval[k + 1][Pos(k + 1 + 1, i)] <= augval[k][Pos(k + 1, i)]
  <2>1. word_id(Pos(k + 1, i)) = Pos(k + 1 + 1, i) /\ word_id(Pos(k + 1, j)) = Pos(k + 1 + 1, j)
    BY <1>1, NodesAbove
  <2>2. augval[k + 1][Pos(k + 1 + 1, j)] <= augval[0][word_id(j)]
    BY <1>1, AugvalsAbove
  <2> QED BY <1>4, <2>1, <2>2
<1> QED BY <1>1, <1>3, <1>4, AugvalsAbove

SelectedIn(k, h) ==
  IF k = Top THEN IF empty THEN {} ELSE {0} ELSE {p \in flag[k + 1] : augval[k][p] <= h}

LEMMA SelectedIs ==
  ASSUME TypeOK, FlagsAreExact, AugvalsAgree, NEW h \in Values
  PROVE  /\ \A k \in Levels : Selected(h)[k] = SelectedIn(k, h)
         /\ \A k \in Levels : Selected(h)[k] \subseteq Nodes(k)
         /\ \A w \in Nodes(0) : w \in Selected(h)[0] <=> Enters(w, h)
         /\ \A i \in Present : \A k \in Levels :
              word_id(i) \in Selected(h)[0] => Pos(k + 1, i) \in Selected(h)[k]
         /\ \A w \in Selected(h)[0] : \E i \in Present : word_id(i) = w
<1> DEFINE Selects(f) == f = [k \in Levels |->
                                IF k = Top THEN IF empty THEN {} ELSE {0}
                                ELSE {p \in flag[k + 1] : word_id(p) \in f[k + 1] /\ augval[k][p] <= h}]
           g == [k \in Levels |-> SelectedIn(k, h)]
           S == CHOOSE f : Selects(f)
<1>1. /\ Present \subseteq Indices /\ \A k \in Levels : flag[k] = {Pos(k, i) : i \in Present}
      /\ empty <=> Present = {}
  BY EmptyIs DEF FlagsAreExact, Present, TypeOK
<1>2. h \in Nat /\ h <= Max
  BY ValuesAre
<1>3. ASSUME NEW k \in Levels, k # Top, NEW p \in SelectedIn(k, h)
      PROVE  word_id(p) \in g[k + 1]
  <2>1. k + 1 \in Levels /\ p \in flag[k + 1] /\ augval[k][p] <= h
    BY <1>3, LevelsAre DEF SelectedIn
  <2>2. PICK i \in Present : p = Pos(k + 1, i)
    BY <1>1, <2>1
  <2>3. word_id(p) = Pos(k + 1 + 1, i) /\ i \in Indices
    BY <1>1, <2>1, <2>2, NodesAbove
  <2>4. CASE k + 1 = Top
    <3>1. word_id(p) = 0
      BY <2>3, <2>4, LevelsAre, WordsAssumption, PositionsInLayer
    <3> QED BY <1>1, <2>1, <2>2, <2>4, <3>1 DEF SelectedIn
  <2>5. CASE k + 1 # Top
    <3>1. k + 1 + 1 \in Levels
      BY <2>1, <2>5, LevelsAre
    <3>2. word_id(p) \in flag[k + 1 + 1]
      BY <1>1, <2>3, <3>1
    <3>3. augval[k + 1][word_id(p)] <= augval[k][p]
      BY <1>3, <2>2, <2>3, AugvalsFall
    <3>4. augval[k + 1][word_id(p)] \in Nat /\ augval[k][p] \in Nat
      BY <2>1, <2>2, <2>3, TypesAre, NodesAbove
    <3>5. augval[k + 1][word_id(p)] <= h
      BY <1>2, <2>1, <3>3, <3>4
    <3> QED BY <2>1, <2>5, <3>2, <3>5 DEF SelectedIn
  <2> QED BY <2>4, <2>5
<1>4. Selects(g)
  <2>1. \A k \in Levels : k # Top =>
          SelectedIn(k, h) = {p \in flag[k + 1] : word_id(p) \in g[k + 1] /\ augval[k][p] <= h}
    <3> SUFFICES ASSUME NEW k \in Levels, k # Top
                 PROVE  SelectedIn(k, h) = {p \in flag[k + 1] : word_id(p) \in g[k + 1] /\ augval[k][p] <= h}
      OBVIOUS
    <3>1. SelectedIn(k, h) = {p \in flag[k + 1] : augval[k][p] <= h}
      BY DEF SelectedIn
    <3>2. \A p \in SelectedIn(k, h) : word_id(p) \in g[k + 1]
      BY <1>3
    <3> HIDE DEF g
    <3> QED BY <3>1, <3>2
  <2>2. \A k \in Levels : k = Top => SelectedIn(k, h) = IF empty THEN {} ELSE {0}
    BY DEF SelectedIn
  <2>3. g = [k \in Levels |-> SelectedIn(k, h)]
    OBVIOUS
  <2> HIDE DEF g
  <2> QED BY <2>1, <2>2, <2>3
<1>5. Selects(S)
  <2> HIDE DEF Selects
  <2> QED BY <1>4, Zenon
<1>6. Selected(h) = S
  BY Zenon DEF Selected
<1> HIDE DEF S
<1>7. \A k \in Levels : S[k] = g[k]
  <2>1. ASSUME NEW f, Selects(f), NEW k \in Levels
        PROVE  f[k] = IF k = Top THEN IF empty THEN {} ELSE {0}
                      ELSE {p \in flag[k + 1] : word_id(p) \in f[k + 1] /\ augval[k][p] <= h}
    BY <2>1
  <2> HIDE DEF g, Selects
  <2>2. S[Top] = g[Top]
    BY <1>4, <1>5, <2>1, LevelsAre
  <2>3. ASSUME NEW k \in Levels, k # Top, S[k + 1] = g[k + 1] PROVE S[k] = g[k]
    <3>1. /\ S[k] = {p \in flag[k + 1] : word_id(p) \in S[k + 1] /\ augval[k][p] <= h}
          /\ g[k] = {p \in flag[k + 1] : word_id(p) \in g[k + 1] /\ augval[k][p] <= h}
      BY <1>4, <1>5, <2>1, <2>3
    <3> QED BY <2>3, <3>1
  <2> QED BY <2>2, <2>3, WordsAssumption, DownFromTop
<1>8. \A k \in Levels : Selected(h)[k] = SelectedIn(k, h)
  BY <1>6, <1>7
<1>9. 0 \in Nodes(Top)
  <2>1. NumWords(Top) = Length(Layers) /\ 0 \in 0..(Length(Layers) - 1)
    BY LevelsAre, WordsAssumption, WordsAreNodes, LengthsDiffer
  <2> QED BY <2>1 DEF Nodes
<1>10. \A k \in Levels : SelectedIn(k, h) \subseteq Nodes(k)
  <2> SUFFICES ASSUME NEW k \in Levels PROVE SelectedIn(k, h) \subseteq Nodes(k)
    OBVIOUS
  <2>1. CASE k = Top
    BY <1>9, <2>1 DEF SelectedIn
  <2>2. CASE k # Top
    <3>1. k + 1 \in Levels
      BY <2>2, LevelsAre
    <3>2. \A i \in Present : Pos(k + 1, i) \in Nodes(k)
      BY <1>1, NodesAbove
    <3> QED BY <1>1, <2>2, <3>1, <3>2 DEF SelectedIn
  <2> QED BY <2>1, <2>2
<1>11. \A w \in Nodes(0) : w \in SelectedIn(0, h) <=> Enters(w, h)
  <2>1. CASE Top = 0
    <3>1. \A w \in Nodes(0) : w = 0
      <4>1. NumWords(0) = Length(Layers) /\ NumWords(0) \in Nat
        BY <2>1, LevelsAre, WordsAssumption, WordsAreNodes
      <4>2. \A p \in Nat : p \in 0..(Length(Layers) - 1) <=> p = 0
        BY WordsAssumption, LengthsDiffer
      <4> QED BY <4>1, <4>2 DEF Nodes
    <3> QED BY <2>1, <3>1 DEF SelectedIn, Enters
  <2>2. CASE Top # 0
    BY <2>2, LevelsAre DEF SelectedIn, Enters
  <2> QED BY <2>1, <2>2
<1>12. ASSUME NEW i \in Present, NEW k \in Levels, word_id(i) \in SelectedIn(0, h)
       PROVE  Pos(k + 1, i) \in SelectedIn(k, h)
  <2>1. i \in Indices /\ word_id(i) = Pos(1, i)
    BY <1>1, NodesAbove
  <2>2. CASE k = Top
    <3>1. Pos(k + 1, i) = 0
      BY <2>1, <2>2, LevelsAre, WordsAssumption, PositionsInLayer
    <3> QED BY <1>1, <2>2, <3>1 DEF SelectedIn
  <2>3. CASE k # Top
    <3>1. k + 1 \in Levels /\ 0 \in Levels /\ 0 # Top
      BY <2>3, LevelsAre
    <3>2. augval[0][word_id(i)] <= h
      BY <1>12, <3>1 DEF SelectedIn
    <3>3. /\ augval[k][Pos(k + 1, i)] <= augval[0][word_id(i)]
          /\ augval[k][Pos(k + 1, i)] \in Nat /\ augval[0][word_id(i)] \in Nat
      BY <2>1, <3>1, AugvalsAbove, TypesAre, NodesAbove
    <3>4. augval[k][Pos(k + 1, i)] <= h
      BY <1>2, <3>2, <3>3
    <3> QED BY <1>1, <2>3, <3>1, <3>4 DEF SelectedIn
  <2> QED BY <2>2, <2>3
<1>13. ASSUME NEW w \in SelectedIn(0, h) PROVE \E i \in Present : word_id(i) = w
  <2>1. CASE Top = 0
    <3>1. w = 0 /\ Present # {}
      BY <1>1, <1>13, <2>1 DEF SelectedIn
    <3>2. PICK i \in Present : TRUE
      BY <3>1
    <3>3. i \in Indices /\ word_id(i) = Pos(1, i) /\ Pos(Layers, i) = 0 /\ Layers = 1
      BY <1>1, <2>1, LevelsAre, NodesAbove, WordsAssumption, PositionsInLayer
    <3> QED BY <3>1, <3>3
  <2>2. CASE Top # 0
    <3>1. w \in flag[1] /\ 1 \in Levels
      BY <1>13, <2>2, LevelsAre DEF SelectedIn
    <3> QED BY <1>1, <3>1, NodesAbove
  <2> QED BY <2>1, <2>2
<1>14. \A k \in Levels : Selected(h)[k] \subseteq Nodes(k)
  BY <1>8, <1>10
<1>15. Selected(h)[0] = SelectedIn(0, h)
  BY <1>8, LevelsAre
<1> QED BY <1>8, <1>11, <1>12, <1>13, <1>14, <1>15

LEMMA ExtractMinSound ==
  ASSUME Sound, NEW h \in Values, ExtractMin(h)
  PROVE  Sound'
<1>1. /\ phase = "clean" /\ phase' = "extract" /\ threshold' = h
      /\ leaf' = [w \in Selected(h)[0] |->
                    [todo |-> Word(0, w), keeping |-> FALSE, kept |-> {}, aggregate |-> Max]]
      /\ called' = {} /\ due' = {i \in held : sequence[i] <= h}
      /\ UNCHANGED <<sequence, flag, dirty, augval, climber, held, inserted>>
  BY DEF ExtractMin, tree
<1>2. /\ TypeOK /\ Marking /\ FlagsAreExact /\ AugvalsAgree /\ NoneIsMax /\ LeastIsBelow /\ LeastIsReached
      /\ Resting /\ inserted = {} /\ called = {} /\ DOMAIN leaf = {}
      /\ Present = held /\ held \subseteq Indices
  BY <1>1 DEF Sound, Summaries, Bounds, PhasesAreApart, Present, TypeOK
<1>3. /\ Selected(h)[0] \subseteq Nodes(0)
      /\ \A w \in Nodes(0) : w \in Selected(h)[0] <=> Enters(w, h)
  BY <1>2, SelectedIs, LevelsAre
<1>4. DOMAIN leaf' = Selected(h)[0]
  BY <1>1
<1>5. \A w \in Nodes(0) : Word(0, w) = {i \in held : word_id(i) = w}
  <2>1. flag[0] = held
    BY <1>1, <1>2, CleanIsExact DEF TreeIsExact
  <2> QED BY <1>2, <2>1, WordIs, LevelsAre
<1>6. \A i : ~ Marked(i)
  BY <1>2, LevelsAre DEF Marked, Climbs, Resting, Idle
<1>7. TypeOK'
  <2>1. \A w \in DOMAIN leaf' :
          leaf'[w] \in [todo : SUBSET Indices, keeping : BOOLEAN, kept : SUBSET Indices,
                        aggregate : Values]
    <3> SUFFICES ASSUME NEW w \in Selected(h)[0]
                 PROVE  leaf'[w] \in [todo : SUBSET Indices, keeping : BOOLEAN,
                                      kept : SUBSET Indices, aggregate : Values]
      BY <1>4
    <3>1. Word(0, w) \in SUBSET Indices
      BY <1>2, <1>3, <1>5
    <3> QED BY <1>1, <3>1, ValuesAre
  <2> QED BY <1>1, <1>2, <1>3, <1>4, <2>1 DEF TypeOK
<1>8. Marking'
  BY <1>1, <1>2 DEF Marking, AllOwed, Owed, Lacks, Owes, HasDirty, InsertedIsDirty
<1>9. PhasesAreApart'
  BY <1>1 DEF PhasesAreApart
<1>10. Summaries'
  <2>1. Present' = Present
    BY <1>1, <1>2 DEF Present
  <2> QED BY <1>1, <1>2, <2>1 DEF Summaries, FlagsAreExact, AugvalsAgree, LeavesBelow, NoneIsMax
<1>11. Bounds'
  <2>1. LeastIsBelow'
    BY <1>1, <1>2, <1>6 DEF LeastIsBelow
  <2>2. LeastIsReached'
    BY <1>1, <1>2 DEF LeastIsReached
  <2> QED BY <2>1, <2>2 DEF Bounds
<1>12. Extraction'
  <2>1. \A w \in Nodes(0) : w \in DOMAIN leaf' <=> Enters(w, threshold)'
    BY <1>1, <1>3, <1>4 DEF Enters, empty, Word
  <2>2. \A w \in DOMAIN leaf' : LeafIsSound(w)'
    <3> SUFFICES ASSUME NEW w \in Selected(h)[0] PROVE LeafIsSound(w)'
      BY <1>4
    <3>1. leaf'[w] = [todo |-> Word(0, w), keeping |-> FALSE, kept |-> {}, aggregate |-> Max]
      BY <1>1
    <3>2. Word(0, w) = {i \in held : word_id(i) = w}
      BY <1>3, <1>5
    <3> QED BY <1>1, <3>1, <3>2 DEF LeafIsSound
  <2>3. \A i \in due' : word_id(i) \in DOMAIN leaf'
    <3> SUFFICES ASSUME NEW i \in held, sequence[i] <= h PROVE Enters(word_id(i), h)
      BY <1>1, <1>2, <1>3, <1>4, NodesAbove
    <3>1. ~ empty
      BY <1>2, EmptyIs
    <3>2. CASE Top # 0
      <4>1. 1 \in Levels /\ word_id(i) = Pos(1, i) /\ word_id(i) \in Nodes(0) /\ i \in Indices
        BY <1>2, <3>2, LevelsAre, NodesAbove
      <4>2. word_id(i) \in flag[1]
        BY <1>2, <4>1 DEF FlagsAreExact
      <4>3. augval[0][word_id(i)] <= sequence[i]
        BY <1>2, <1>6 DEF LeastIsBelow
      <4>4. augval[0][word_id(i)] \in Nat /\ sequence[i] \in Nat /\ h \in Nat
        BY <1>2, <4>1, TypesAre, LevelsAre, ValuesAre
      <4>5. augval[0][word_id(i)] <= h
        BY <4>3, <4>4
      <4> QED BY <3>2, <4>2, <4>5 DEF Enters
    <3> QED BY <3>1, <3>2 DEF Enters
  <2>4. Present' = held
    BY <1>1 DEF Present
  <2>5. /\ called' \cap held' = {}
        /\ \A i \in called' \cup due' : word_id(i) \in DOMAIN leaf'
        /\ due' \subseteq Present' /\ \A i \in due' : sequence'[i] <= threshold'
        /\ \A i \in held' : ~ Marked(i)' /\ sequence'[i] <= threshold' => i \in due'
    BY <1>1, <2>3, <2>4
  <2> QED BY <2>1, <2>2, <2>5 DEF Extraction
<1> QED BY <1>7, <1>8, <1>9, <1>10, <1>11, <1>12 DEF Sound

-----------------------------------------------------------------------------
(***************************************************************************)
(* Both extractions enter nodes S and leave the elements R and, in the     *)
(* nodes of layer 0, new least values: the nodes above follow.             *)
(***************************************************************************)
NewLeast(S, aggregate, w) == IF w \in S[0] THEN aggregate[w] ELSE augval[0][w]

Remains(S, kept, aggregate, R) ==
  /\ R \subseteq Present
  /\ \A i \in Present : word_id(i) \in S[0] => \A k \in Levels : Pos(k + 1, i) \in S[k]
  /\ \A i \in Present : word_id(i) \notin S[0] => i \in R
  /\ \A w \in S[0] : /\ kept[w] = {i \in R : word_id(i) = w} /\ aggregate[w] \in Values
                     /\ \E i \in Present : word_id(i) = w

LeftIn(R, k, w) == {Pos(k, i) : i \in {j \in R : Pos(k + 1, j) = w}}

LeftStep(S, kept, f, k, w) ==
  IF w \notin S[k] THEN Word(k, w)
  ELSE IF k = 0 THEN kept[w] ELSE {p \in Word(k, w) : p \in S[k - 1] => f[k - 1][p] # {}}

LEMMA RemainsIn ==
  ASSUME TypeOK, FlagsAreExact, NEW S, NEW kept, NEW aggregate, NEW R,
         Remains(S, kept, aggregate, R),
         NEW k \in Levels, NEW w \in Nodes(k), NEW f,
         k = 0 \/ f[k - 1] = [p \in Nodes(k - 1) |-> LeftIn(R, k - 1, p)]
  PROVE  LeftStep(S, kept, f, k, w) = LeftIn(R, k, w)
<1>1. /\ R \subseteq Present /\ Present \subseteq Indices
      /\ \A i \in Present : \A j \in Levels : Pos(j + 1, i) \notin S[j] => i \in R
  BY DEF Remains, Present, TypeOK
<1>2. \A p : p \in Word(k, w) <=> \E i \in Present : Pos(k, i) = p /\ Pos(k + 1, i) = w
  BY WordIs
<1>3. \A p : p \in LeftIn(R, k, w) <=> \E i \in R : Pos(k, i) = p /\ Pos(k + 1, i) = w
  BY DEF LeftIn
<1>4. CASE w \notin S[k]
  <2>1. \A p : p \in Word(k, w) <=> p \in LeftIn(R, k, w)
    BY <1>1, <1>2, <1>3, <1>4
  <2> QED BY <1>4, <2>1 DEF LeftStep
<1>5. CASE w \in S[k] /\ k = 0
  <2>1. kept[w] = {i \in R : word_id(i) = w}
    BY <1>5 DEF Remains
  <2>2. \A i \in R : Pos(0, i) = i /\ Pos(0 + 1, i) = word_id(i)
    BY <1>1, NodesAbove, WordsAssumption, PositionsInLayer
  <2>3. \A p : p \in kept[w] <=> p \in LeftIn(R, k, w)
    BY <1>3, <1>5, <2>1, <2>2
  <2> QED BY <1>5, <2>3 DEF LeftStep
<1>6. CASE w \in S[k] /\ k # 0
  <2>1. k - 1 \in Levels /\ k - 1 + 1 = k
    BY <1>6, LevelsAre
  <2>2. \A i \in Present : /\ Pos(k, i) \in Nodes(k - 1)
                           /\ word_id(Pos(k, i)) = Pos(k + 1, i)
    BY <1>1, <2>1, NodesAbove
  <2>3. \A p \in Word(k, w) : f[k - 1][p] # {} <=> \E i \in R : Pos(k, i) = p
    <3>1. \A p \in Word(k, w) : p \in Nodes(k - 1)
      BY <1>2, <2>2
    <3>2. \A p \in Nodes(k - 1) : f[k - 1][p] = LeftIn(R, k - 1, p)
      BY <1>6
    <3>3. \A p : LeftIn(R, k - 1, p) # {} <=> \E i \in R : Pos(k, i) = p
      BY <2>1 DEF LeftIn
    <3> QED BY <3>1, <3>2, <3>3
  <2>4. \A p : p \in LeftIn(R, k, w) <=>
               p \in Word(k, w) /\ (p \in S[k - 1] => f[k - 1][p] # {})
    <3> SUFFICES ASSUME NEW p
                 PROVE  p \in LeftIn(R, k, w) <=>
                        p \in Word(k, w) /\ (p \in S[k - 1] => f[k - 1][p] # {})
      OBVIOUS
    <3>1. ASSUME p \in LeftIn(R, k, w) PROVE p \in Word(k, w) /\ f[k - 1][p] # {}
      BY <1>1, <1>2, <1>3, <2>3, <3>1
    <3>2. ASSUME p \in Word(k, w), p \in S[k - 1] => f[k - 1][p] # {}
          PROVE  p \in LeftIn(R, k, w)
      <4>1. PICK i \in Present : Pos(k, i) = p /\ Pos(k + 1, i) = w
        BY <1>2, <3>2
      <4>2. CASE p \notin S[k - 1]
        BY <1>1, <1>3, <2>1, <4>1, <4>2
      <4>3. CASE p \in S[k - 1]
        <5>1. PICK j \in R : Pos(k, j) = p
          BY <2>3, <3>2, <4>3
        <5>2. Pos(k + 1, j) = w
          BY <1>1, <2>2, <4>1, <5>1
        <5> QED BY <1>3, <5>1, <5>2
      <4> QED BY <4>2, <4>3
    <3> QED BY <3>1, <3>2
  <2> QED BY <1>6, <2>4 DEF LeftStep
<1> QED BY <1>4, <1>5, <1>6

LeavesOf(S, aggregate, k, w) ==
  {NewLeast(S, aggregate, word_id(i)) : i \in {j \in Indices : Pos(k + 1, j) = w}}
LeastIn(S, aggregate, k, w) == First({Max} \cup LeavesOf(S, aggregate, k, w))

LeastStep(S, aggregate, f, k, w) ==
  IF w \notin S[k] THEN augval[k][w]
  ELSE IF k = 0 THEN aggregate[w] ELSE First({Max} \cup {f[k - 1][p] : p \in Word(k, w)})

LEMMA LeastInHas ==
  ASSUME TypeOK, NEW S, NEW kept, NEW aggregate, NEW R, Remains(S, kept, aggregate, R),
         NEW k \in Levels, NEW w \in Nodes(k)
  PROVE  /\ LeavesOf(S, aggregate, k, w) \in SUBSET Values
         /\ LeastIn(S, aggregate, k, w) \in Values
         /\ \A i \in Indices : Pos(k + 1, i) = w =>
              /\ NewLeast(S, aggregate, word_id(i)) \in Values
              /\ LeastIn(S, aggregate, k, w) <= NewLeast(S, aggregate, word_id(i))
         /\ \/ LeastIn(S, aggregate, k, w) = Max
            \/ \E i \in Indices : /\ Pos(k + 1, i) = w
                                  /\ LeastIn(S, aggregate, k, w) = NewLeast(S, aggregate, word_id(i))
<1>1. \A i \in Indices : NewLeast(S, aggregate, word_id(i)) \in Values
  <2> SUFFICES ASSUME NEW i \in Indices PROVE NewLeast(S, aggregate, word_id(i)) \in Values
    OBVIOUS
  <2>1. augval[0][word_id(i)] \in Values
    BY TypesAre, NodesAbove, LevelsAre
  <2> QED BY <2>1 DEF NewLeast, Remains
<1>2. LeavesOf(S, aggregate, k, w) \in SUBSET Values
  BY <1>1 DEF LeavesOf
<1>3. /\ LeastIn(S, aggregate, k, w) \in Values
      /\ \A q \in LeavesOf(S, aggregate, k, w) : LeastIn(S, aggregate, k, w) <= q
      /\ \/ LeastIn(S, aggregate, k, w) = Max
         \/ LeastIn(S, aggregate, k, w) \in LeavesOf(S, aggregate, k, w)
  BY <1>2, LeastHas DEF LeastIn
<1> QED BY <1>1, <1>2, <1>3 DEF LeavesOf

LEMMA LeastInUp ==
  ASSUME TypeOK, Summaries, NEW S, NEW kept, NEW aggregate, NEW R,
         Remains(S, kept, aggregate, R),
         NEW k \in Levels, NEW w \in Nodes(k), NEW f,
         k = 0 \/ f[k - 1] = [p \in Nodes(k - 1) |-> LeastIn(S, aggregate, k - 1, p)]
  PROVE  LeastStep(S, aggregate, f, k, w) = LeastIn(S, aggregate, k, w)
<1> DEFINE L == LeavesOf(S, aggregate, k, w)
           NL(i) == NewLeast(S, aggregate, word_id(i))
<1>1. /\ FlagsAreExact /\ AugvalsAgree /\ NoneIsMax /\ R \subseteq Present /\ Present \subseteq Indices
      /\ \A i \in Indices : word_id(i) \in Nodes(0)
      /\ \A p : p \in S[0] => \E i \in Present : word_id(i) = p
      /\ \A i \in Present : word_id(i) \in S[0] => Pos(k + 1, i) \in S[k]
  BY NodesAbove DEF Summaries, Remains, Present, TypeOK
<1>2. L \in SUBSET Values /\ \A i \in Indices : Pos(k + 1, i) = w => NL(i) \in Values /\ NL(i) \in L
  BY LeastInHas DEF LeavesOf
<1>3. CASE w \notin S[k]
  <2>1. ASSUME NEW i \in Indices, Pos(k + 1, i) = w PROVE NL(i) = augval[0][word_id(i)]
    <3>1. ASSUME word_id(i) \in S[0] PROVE FALSE
      <4>1. PICK j \in Present : word_id(j) = word_id(i)
        BY <1>1, <3>1
      <4>2. Pos(k + 1, j) = w
        BY <1>1, <2>1, <4>1, WordsAssumption, TogetherAbove
      <4> QED BY <1>1, <1>3, <3>1, <4>1, <4>2
    <3> QED BY <3>1 DEF NewLeast
  <2>2. L = LeavesBelow(k, w)
    BY <2>1 DEF LeavesOf, LeavesBelow
  <2>3. augval[k][w] = First({Max} \cup LeavesBelow(k, w))
    BY <1>1 DEF AugvalsAgree
  <2> QED BY <1>3, <2>2, <2>3 DEF LeastStep, LeastIn
<1>4. CASE w \in S[k] /\ k = 0
  <2>1. PICK i \in Present : word_id(i) = w
    BY <1>1, <1>4
  <2>2. \A j \in Indices : Pos(k + 1, j) = word_id(j)
    BY <1>4, NodesAbove
  <2>3. aggregate[w] \in Values /\ \A q \in L : q = aggregate[w]
    BY <1>4, <2>2 DEF LeavesOf, NewLeast, Remains
  <2>4. aggregate[w] \in L
    BY <1>1, <1>2, <1>4, <2>1, <2>2 DEF NewLeast
  <2> HIDE DEF L
  <2>8. aggregate[w] \in Nat /\ aggregate[w] <= aggregate[w]
    <3>1. \A x \in Nat : x <= x
      OBVIOUS
    <3>2. aggregate[w] \in Nat
      BY <2>3, ValuesAre, Zenon
    <3> QED BY <3>1, <3>2, Zenon
  <2>5. \A q \in L : aggregate[w] <= q
    BY <2>3, <2>8, Zenon
  <2>6. \E q \in L : q <= aggregate[w]
    BY <2>4, <2>8, Zenon
  <2>7. aggregate[w] = First({Max} \cup L)
    BY <1>2, <2>3, <2>5, <2>6, LeastIs
  <2> QED BY <1>4, <2>7 DEF LeastStep, LeastIn, L
<1>5. CASE w \in S[k] /\ k # 0
  <2> DEFINE T == {f[k - 1][p] : p \in Word(k, w)}
             v == First({Max} \cup T)
  <2>1. k - 1 \in Levels /\ k - 1 + 1 = k
    BY <1>5, LevelsAre
  <2>2. \A i \in Indices : Pos(k, i) \in Nodes(k - 1) /\ word_id(Pos(k, i)) = Pos(k + 1, i)
    BY <2>1, NodesAbove
  <2>3. \A p : p \in Word(k, w) <=> \E i \in Present : Pos(k, i) = p /\ Pos(k + 1, i) = w
    BY <1>1, WordIs
  <2>4. \A p \in Word(k, w) :
          /\ p \in Nodes(k - 1) /\ f[k - 1][p] \in Values
          /\ \A i \in Indices : Pos(k, i) = p => f[k - 1][p] <= NL(i)
          /\ f[k - 1][p] = Max \/ \E i \in Indices : Pos(k, i) = p /\ f[k - 1][p] = NL(i)
    <3> SUFFICES ASSUME NEW p \in Word(k, w)
                 PROVE  /\ p \in Nodes(k - 1) /\ f[k - 1][p] \in Values
                        /\ \A i \in Indices : Pos(k, i) = p => f[k - 1][p] <= NL(i)
                        /\ \/ f[k - 1][p] = Max
                           \/ \E i \in Indices : Pos(k, i) = p /\ f[k - 1][p] = NL(i)
      OBVIOUS
    <3>1. p \in Nodes(k - 1)
      BY <1>1, <2>2, <2>3
    <3>2. f[k - 1][p] = LeastIn(S, aggregate, k - 1, p)
      BY <1>5, <3>1
    <3>3. /\ LeastIn(S, aggregate, k - 1, p) \in Values
          /\ \A i \in Indices : Pos(k - 1 + 1, i) = p => LeastIn(S, aggregate, k - 1, p) <= NL(i)
          /\ \/ LeastIn(S, aggregate, k - 1, p) = Max
             \/ \E i \in Indices : Pos(k - 1 + 1, i) = p /\ LeastIn(S, aggregate, k - 1, p) = NL(i)
      BY <2>1, <3>1, LeastInHas
    <3> QED BY <2>1, <3>1, <3>2, <3>3
  <2>5. T \in SUBSET Values
    BY <2>4
  <2>6. /\ v \in Values /\ v \in Nat /\ v <= Max /\ \A q \in T : v <= q
        /\ v = Max \/ v \in T
    <3> HIDE DEF T
    <3> QED BY <2>5, LeastHas
  <2> HIDE DEF v
  <2>7. ASSUME NEW i \in Indices, Pos(k + 1, i) = w PROVE v <= NL(i)
    <3>0. NL(i) \in Nat
      BY <1>2, <2>7, ValuesAre
    <3>1. CASE Pos(k, i) \in Word(k, w)
      <4>1. f[k - 1][Pos(k, i)] \in T /\ f[k - 1][Pos(k, i)] <= NL(i)
        BY <2>4, <3>1
      <4>2. f[k - 1][Pos(k, i)] \in Nat
        BY <2>4, <3>1, ValuesAre
      <4>3. v \in Nat /\ v <= f[k - 1][Pos(k, i)]
        BY <2>6, <4>1
      <4> HIDE DEF NL, T
      <4> QED BY <3>0, <4>1, <4>2, <4>3
    <3>2. CASE Pos(k, i) \notin Word(k, w)
      <4>1. ASSUME NEW j \in Present, word_id(j) = word_id(i) PROVE FALSE
        <5>1. Pos(k, j) = Pos(k, i)
          BY <1>1, <2>1, <4>1, WordsAssumption, TogetherAbove
        <5> QED BY <1>1, <2>2, <2>3, <2>7, <3>2, <5>1
      <4>2. augval[0][word_id(i)] = Max /\ word_id(i) \notin S[0]
        BY <1>1, <4>1 DEF NoneIsMax
      <4> QED BY <2>6, <4>2 DEF NewLeast
    <3> QED BY <3>1, <3>2
  <2>8. v = Max \/ \E i \in Indices : Pos(k + 1, i) = w /\ NL(i) <= v
    <3>1. ASSUME v # Max PROVE \E i \in Indices : Pos(k + 1, i) = w /\ NL(i) <= v
      <4>1. PICK p \in Word(k, w) : v = f[k - 1][p]
        BY <2>6, <3>1
      <4>2. PICK i \in Indices : Pos(k, i) = p /\ v = NL(i)
        BY <2>4, <3>1, <4>1
      <4>3. Pos(k + 1, i) = w
        BY <1>1, <2>2, <2>3, <4>1, <4>2
      <4> QED BY <2>6, <4>2, <4>3
    <3> QED BY <3>1
  <2>9. \A q \in L : v <= q
    BY <2>7 DEF LeavesOf
  <2>10. v = Max \/ \E q \in L : q <= v
    BY <1>2, <2>8
  <2> HIDE DEF L
  <2>11. v = First({Max} \cup L)
    BY <1>2, <2>6, <2>9, <2>10, LeastIs
  <2> QED BY <1>5, <2>11 DEF LeastStep, LeastIn, L, v
<1> QED BY <1>3, <1>4, <1>5

LEMMA LeaveIs ==
  ASSUME TypeOK, Summaries, NEW S, NEW kept, NEW aggregate, NEW R,
         Remains(S, kept, aggregate, R), Leave(S, kept, aggregate)
  PROVE  /\ flag' = [k \in Levels |-> {Pos(k, i) : i \in R}]
         /\ augval' = [k \in Levels |-> [w \in Nodes(k) |-> LeastIn(S, aggregate, k, w)]]
         /\ \A w \in Nodes(0) : augval'[0][w] = NewLeast(S, aggregate, w)
<1> DEFINE Lefts(f) == f = [k \in Levels |-> [w \in Nodes(k) |->
                              IF w \notin S[k] THEN Word(k, w)
                              ELSE IF k = 0 THEN kept[w] ELSE LeftOver(S, f, k, w)]]
           Leasts(f) == f = [k \in Levels |-> [w \in Nodes(k) |->
                              IF w \notin S[k] THEN augval[k][w]
                              ELSE IF k = 0 THEN aggregate[w]
                              ELSE First({Max} \cup {f[k - 1][p] : p \in Word(k, w)})]]
           Left == CHOOSE f : Lefts(f)
           Least == CHOOSE f : Leasts(f)
           g == [k \in Levels |-> [w \in Nodes(k) |-> LeftIn(R, k, w)]]
           h == [k \in Levels |-> [w \in Nodes(k) |-> LeastIn(S, aggregate, k, w)]]
<1>1. /\ flag' = [k \in Levels |-> UNION {Left[k][w] : w \in Nodes(k)}]
      /\ augval' = Least
  BY Zenon DEF Leave
<1>2. \A f : Lefts(f) <=> f = [k \in Levels |-> [w \in Nodes(k) |-> LeftStep(S, kept, f, k, w)]]
  BY DEF LeftStep, LeftOver
<1>3. \A f : Leasts(f) <=> f = [k \in Levels |-> [w \in Nodes(k) |-> LeastStep(S, aggregate, f, k, w)]]
  BY DEF LeastStep
<1>4. \A k \in Levels : k # 0 => k - 1 \in Levels
  BY LevelsAre
<1>5. ASSUME NEW f, NEW k \in Levels, k = 0 \/ f[k - 1] = g[k - 1]
      PROVE  \A w \in Nodes(k) : LeftStep(S, kept, f, k, w) = LeftIn(R, k, w)
  <2>1. k = 0 \/ f[k - 1] = [p \in Nodes(k - 1) |-> LeftIn(R, k - 1, p)]
    BY <1>4, <1>5
  <2> QED BY <2>1, RemainsIn DEF Summaries
<1>6. ASSUME NEW f, NEW k \in Levels, k = 0 \/ f[k - 1] = h[k - 1]
      PROVE  \A w \in Nodes(k) : LeastStep(S, aggregate, f, k, w) = LeastIn(S, aggregate, k, w)
  <2>1. k = 0 \/ f[k - 1] = [p \in Nodes(k - 1) |-> LeastIn(S, aggregate, k - 1, p)]
    BY <1>4, <1>6
  <2> QED BY <2>1, LeastInUp
<1>7. Lefts(g)
  <2>1. \A k \in Levels : \A w \in Nodes(k) : LeftStep(S, kept, g, k, w) = LeftIn(R, k, w)
    BY <1>5
  <2>2. g = [k \in Levels |-> [w \in Nodes(k) |-> LeftStep(S, kept, g, k, w)]]
    <3>1. \A k \in Levels : [w \in Nodes(k) |-> LeftStep(S, kept, g, k, w)]
                              = [w \in Nodes(k) |-> LeftIn(R, k, w)]
      BY <2>1
    <3>2. g = [k \in Levels |-> [w \in Nodes(k) |-> LeftIn(R, k, w)]]
      OBVIOUS
    <3> HIDE DEF g
    <3> QED BY <3>1, <3>2
  <2> QED BY <1>2, <2>2
<1>8. Leasts(h)
  <2>1. \A k \in Levels : \A w \in Nodes(k) :
          LeastStep(S, aggregate, h, k, w) = LeastIn(S, aggregate, k, w)
    BY <1>6
  <2>2. h = [k \in Levels |-> [w \in Nodes(k) |-> LeastStep(S, aggregate, h, k, w)]]
    <3>1. \A k \in Levels : [w \in Nodes(k) |-> LeastStep(S, aggregate, h, k, w)]
                              = [w \in Nodes(k) |-> LeastIn(S, aggregate, k, w)]
      BY <2>1
    <3>2. h = [k \in Levels |-> [w \in Nodes(k) |-> LeastIn(S, aggregate, k, w)]]
      OBVIOUS
    <3> HIDE DEF h
    <3> QED BY <3>1, <3>2
  <2> QED BY <1>3, <2>2
<1>9. Lefts(Left) /\ Leasts(Least)
  <2> HIDE DEF Lefts, Leasts
  <2> QED BY <1>7, <1>8, Zenon
<1> HIDE DEF Left, Least, Lefts, Leasts
<1>10. \A k \in Levels : Left[k] = [w \in Nodes(k) |-> LeftStep(S, kept, Left, k, w)]
  BY <1>2, <1>9
<1>11. \A k \in Levels : Least[k] = [w \in Nodes(k) |-> LeastStep(S, aggregate, Least, k, w)]
  BY <1>3, <1>9
<1>12. \A k \in Levels : k = 0 \/ Left[k - 1] = g[k - 1] => Left[k] = g[k]
  <2> SUFFICES ASSUME NEW k \in Levels, k = 0 \/ Left[k - 1] = g[k - 1] PROVE Left[k] = g[k]
    OBVIOUS
  <2>1. \A w \in Nodes(k) : LeftStep(S, kept, Left, k, w) = LeftIn(R, k, w)
    BY <1>5
  <2>2. g[k] = [w \in Nodes(k) |-> LeftIn(R, k, w)]
    OBVIOUS
  <2> HIDE DEF g
  <2> QED BY <1>10, <2>1, <2>2
<1>13. \A k \in Levels : k = 0 \/ Least[k - 1] = h[k - 1] => Least[k] = h[k]
  <2> SUFFICES ASSUME NEW k \in Levels, k = 0 \/ Least[k - 1] = h[k - 1] PROVE Least[k] = h[k]
    OBVIOUS
  <2>1. \A w \in Nodes(k) : LeastStep(S, aggregate, Least, k, w) = LeastIn(S, aggregate, k, w)
    BY <1>6
  <2>2. h[k] = [w \in Nodes(k) |-> LeastIn(S, aggregate, k, w)]
    OBVIOUS
  <2> HIDE DEF h
  <2> QED BY <1>11, <2>1, <2>2
<1>14. \A k \in Levels : Left[k] = g[k] /\ Least[k] = h[k]
  <2> HIDE DEF g, h
  <2>1. \A k \in Levels : Left[k] = g[k]
    BY <1>12, WordsAssumption, UpFromLeaves, LevelsAre
  <2>2. \A k \in Levels : Least[k] = h[k]
    BY <1>13, WordsAssumption, UpFromLeaves, LevelsAre
  <2> QED BY <2>1, <2>2
<1>15. \A k \in Levels : UNION {Left[k][w] : w \in Nodes(k)} = {Pos(k, i) : i \in R}
  <2> SUFFICES ASSUME NEW k \in Levels
               PROVE  UNION {Left[k][w] : w \in Nodes(k)} = {Pos(k, i) : i \in R}
    OBVIOUS
  <2>1. \A w \in Nodes(k) : Left[k][w] = LeftIn(R, k, w)
    BY <1>14
  <2>2. \A i \in R : Pos(k + 1, i) \in Nodes(k)
    BY NodesAbove DEF Remains, Present, TypeOK
  <2> QED BY <2>1, <2>2 DEF LeftIn
<1>16. augval' = h
  <2>1. Least = [k \in Levels |-> Least[k]]
    BY <1>3, <1>9
  <2>2. h = [k \in Levels |-> h[k]]
    OBVIOUS
  <2> HIDE DEF h
  <2> QED BY <1>1, <1>14, <2>1, <2>2
<1>17. \A w \in Nodes(0) : augval'[0][w] = NewLeast(S, aggregate, w)
  <2>1. 0 \in Levels /\ Least[0] = [w \in Nodes(0) |-> LeastStep(S, aggregate, Least, 0, w)]
    BY <1>11, LevelsAre
  <2>2. \A w : LeastStep(S, aggregate, Least, 0, w) = NewLeast(S, aggregate, w)
    BY DEF LeastStep, NewLeast
  <2> QED BY <1>1, <2>1, <2>2
<1> QED BY <1>1, <1>15, <1>16, <1>17

LEMMA LeaveSound ==
  ASSUME TypeOK, Summaries, NEW S, NEW kept, NEW aggregate, NEW R,
         Remains(S, kept, aggregate, R), Leave(S, kept, aggregate),
         \A w \in S[0] : kept[w] = {} => aggregate[w] = Max,
         Present' = R
  PROVE  /\ Summaries'
         /\ \A k \in Levels : \A p \in flag'[k] : p \in Indices /\ p \in 0..(Length(k) - 1)
         /\ flag' \in [Levels -> SUBSET Indices]
         /\ \A k \in Levels : augval'[k] \in [Nodes(k) -> Values]
         /\ \A w \in Nodes(0) : augval'[0][w] = NewLeast(S, aggregate, w)
<1>1. /\ flag' = [k \in Levels |-> {Pos(k, i) : i \in R}]
      /\ augval' = [k \in Levels |-> [w \in Nodes(k) |-> LeastIn(S, aggregate, k, w)]]
      /\ \A w \in Nodes(0) : augval'[0][w] = NewLeast(S, aggregate, w)
  BY LeaveIs
<1>2. /\ FlagsAreExact /\ AugvalsAgree /\ NoneIsMax /\ R \subseteq Present /\ Present \subseteq Indices
      /\ \A i \in Indices : word_id(i) \in Nodes(0)
      /\ \A i \in Present : word_id(i) \notin S[0] => i \in R
  BY NodesAbove DEF Summaries, Remains, Present, TypeOK
<1>3. \A k \in Levels : \A p \in flag'[k] : p \in Indices /\ p \in 0..(Length(k) - 1)
  BY <1>1, <1>2, NodesAbove
<1>4. flag' \in [Levels -> SUBSET Indices]
  BY <1>1, <1>2, NodesAbove
<1>5. \A k \in Levels : augval'[k] \in [Nodes(k) -> Values]
  BY <1>1, LeastInHas
<1>6. FlagsAreExact'
  BY <1>1 DEF FlagsAreExact
<1>7. AugvalsAgree'
  <2> SUFFICES ASSUME NEW k \in Levels, NEW w \in Nodes(k)
               PROVE  augval'[k][w] = First({Max} \cup LeavesBelow(k, w)')
    BY DEF AugvalsAgree
  <2>1. LeavesBelow(k, w)' = LeavesOf(S, aggregate, k, w)
    BY <1>1, <1>2 DEF LeavesBelow, LeavesOf
  <2> QED BY <1>1, <2>1 DEF LeastIn
<1>8. NoneIsMax'
  <2> SUFFICES ASSUME NEW w \in Nodes(0), \A i \in R : word_id(i) # w PROVE augval'[0][w] = Max
    BY DEF NoneIsMax
  <2>1. CASE w \in S[0]
    <3>1. kept[w] = {}
      BY <2>1 DEF Remains
    <3> QED BY <1>1, <2>1, <3>1 DEF NewLeast
  <2>2. CASE w \notin S[0]
    <3>1. \A i \in Present : word_id(i) # w
      BY <1>2, <2>2
    <3> QED BY <1>1, <1>2, <2>2, <3>1 DEF NewLeast, NoneIsMax
  <2> QED BY <2>1, <2>2
<1> QED BY <1>1, <1>3, <1>4, <1>5, <1>6, <1>7, <1>8 DEF Summaries

LEMMA FinishSound ==
  ASSUME Sound, Finish
  PROVE  Sound'
<1> DEFINE S == Selected(threshold)
           kept == [w \in DOMAIN leaf |-> leaf[w].kept]
           aggregate == [w \in DOMAIN leaf |-> leaf[w].aggregate]
<1>1. /\ phase = "extract" /\ Resting /\ \A w \in DOMAIN leaf : leaf[w].todo = {}
      /\ phase' = "user" /\ Leave(S, kept, aggregate)
      /\ threshold' = 0 /\ leaf' = <<>> /\ called' = {} /\ due' = {}
      /\ UNCHANGED <<sequence, dirty, climber, held, inserted>>
  BY DEF Finish, Joined
<1>2. /\ TypeOK /\ Marking /\ Summaries /\ FlagsAreExact /\ AugvalsAgree
      /\ LeastIsBelow /\ LeastIsReached
      /\ held \subseteq Indices /\ threshold \in Values /\ DOMAIN leaf \subseteq Nodes(0)
      /\ Present \subseteq Indices
  BY DEF Sound, Summaries, Bounds, TypeOK, Present
<1>3. /\ \A w \in Nodes(0) : w \in DOMAIN leaf <=> Enters(w, threshold)
      /\ \A w \in DOMAIN leaf : LeafIsSound(w)
      /\ \A i \in called : word_id(i) \in DOMAIN leaf
  BY <1>1 DEF Sound, Extraction
<1>4. /\ S[0] = DOMAIN leaf
      /\ \A i \in Present : \A k \in Levels : word_id(i) \in S[0] => Pos(k + 1, i) \in S[k]
      /\ \A w \in S[0] : \E i \in Present : word_id(i) = w
  <2>1. /\ S[0] \subseteq Nodes(0)
        /\ \A w \in Nodes(0) : w \in S[0] <=> Enters(w, threshold)
        /\ \A i \in Present : \A k \in Levels : word_id(i) \in S[0] => Pos(k + 1, i) \in S[k]
        /\ \A w \in S[0] : \E i \in Present : word_id(i) = w
    <3> HIDE DEF S
    <3> SUFFICES /\ Selected(threshold)[0] \subseteq Nodes(0)
                 /\ \A w \in Nodes(0) : w \in Selected(threshold)[0] <=> Enters(w, threshold)
                 /\ \A i \in Present : \A k \in Levels :
                      word_id(i) \in Selected(threshold)[0] => Pos(k + 1, i) \in Selected(threshold)[k]
                 /\ \A w \in Selected(threshold)[0] : \E i \in Present : word_id(i) = w
      BY DEF S
    <3> QED BY <1>2, SelectedIs, LevelsAre
  <2> HIDE DEF S
  <2> QED BY <1>2, <1>3, <2>1
<1> HIDE DEF S
<1>5. \A w \in DOMAIN leaf :
        /\ kept[w] = leaf[w].kept /\ aggregate[w] = leaf[w].aggregate
        /\ kept[w] = {i \in held : word_id(i) = w} /\ aggregate[w] \in Values
        /\ aggregate[w] = Max \/ \E i \in kept[w] : sequence[i] <= aggregate[w]
        /\ \A i \in kept[w] : ~ Marked(i) => aggregate[w] <= sequence[i]
  <2> SUFFICES ASSUME NEW w \in DOMAIN leaf
               PROVE  /\ leaf[w].kept = {i \in held : word_id(i) = w} /\ leaf[w].aggregate \in Values
                      /\ \/ leaf[w].aggregate = Max
                         \/ \E i \in leaf[w].kept : sequence[i] <= leaf[w].aggregate
                      /\ \A i \in leaf[w].kept : ~ Marked(i) => leaf[w].aggregate <= sequence[i]
    OBVIOUS
  <2>1. leaf[w].aggregate \in Values
    BY <1>2 DEF TypeOK
  <2> QED BY <1>1, <1>3, <2>1 DEF LeafIsSound
<1> HIDE DEF kept, aggregate
<1>6. Remains(S, kept, aggregate, held)
  <2>1. held \subseteq Present /\ \A i \in Present : i \in held \/ i \in called
    BY DEF Present
  <2> QED BY <1>3, <1>4, <1>5, <2>1 DEF Remains
<1>7. Present' = held
  BY <1>1 DEF Present
<1>8. \A w \in S[0] : kept[w] = {} => aggregate[w] = Max
  BY <1>4, <1>5
<1>9. /\ Summaries'
      /\ \A k \in Levels : \A p \in flag'[k] : p \in Indices /\ p \in 0..(Length(k) - 1)
      /\ flag' \in [Levels -> SUBSET Indices]
      /\ \A k \in Levels : augval'[k] \in [Nodes(k) -> Values]
      /\ \A w \in Nodes(0) : augval'[0][w] = NewLeast(S, aggregate, w)
  BY <1>1, <1>2, <1>6, <1>7, <1>8, LeaveSound
<1>10. DOMAIN leaf' = {} /\ 0 \in Values
  <2>1. DOMAIN <<>> = {}
    OBVIOUS
  <2> QED BY <1>1, <2>1, ValuesAre DEF Values
<1>11. TypeOK'
  BY <1>1, <1>2, <1>9, <1>10 DEF TypeOK
<1>12. Marking'
  BY <1>1, <1>2 DEF Marking, AllOwed, Owed, Lacks, Owes, HasDirty, InsertedIsDirty
<1>13. PhasesAreApart'
  BY <1>1, <1>10 DEF PhasesAreApart
<1>14. Bounds'
  <2>1. \A i : Marked(i)' <=> Marked(i)
    BY <1>1 DEF Marked, Climbs
  <2>2. LeastIsBelow'
    <3> SUFFICES ASSUME NEW i \in held, ~ Marked(i)
                 PROVE  NewLeast(S, aggregate, word_id(i)) <= sequence[i]
      BY <1>1, <1>2, <1>9, <2>1, NodesAbove DEF LeastIsBelow
    <3> QED BY <1>2, <1>4, <1>5 DEF NewLeast, LeastIsBelow
  <2>3. LeastIsReached'
    <3> SUFFICES ASSUME NEW w \in Nodes(0)
                 PROVE  \/ NewLeast(S, aggregate, w) = Max
                        \/ \E i \in held \cup inserted :
                             word_id(i) = w /\ sequence[i] <= NewLeast(S, aggregate, w)
      BY <1>1, <1>9 DEF LeastIsReached
    <3>1. CASE w \in S[0]
      BY <1>4, <1>5, <3>1 DEF NewLeast
    <3>2. CASE w \notin S[0]
      BY <1>2, <1>4, <3>2 DEF NewLeast, LeastIsReached
    <3> QED BY <3>1, <3>2
  <2> QED BY <2>2, <2>3 DEF Bounds
<1>15. Extraction'
  BY <1>1 DEF Extraction
<1> QED BY <1>9, <1>11, <1>12, <1>13, <1>14, <1>15 DEF Sound

-----------------------------------------------------------------------------
(***************************************************************************)
(* extract_prefix_min: the least value of the elements before position p   *)
(* of layer k, which is the prefix_min that the node p one layer down gets.*)
(***************************************************************************)
LeftOf(k, p) == First({Max} \cup {sequence[i] : i \in {j \in held : Pos(k, j) < p}})

LEMMA LeftOfHas ==
  ASSUME TypeOK, NEW k, NEW p
  PROVE  /\ LeftOf(k, p) \in Values /\ LeftOf(k, p) \in Nat
         /\ \A i \in held : Pos(k, i) < p => LeftOf(k, p) <= sequence[i]
         /\ LeftOf(k, p) = Max \/ \E i \in held : Pos(k, i) < p /\ LeftOf(k, p) = sequence[i]
<1> DEFINE S == {sequence[i] : i \in {j \in held : Pos(k, j) < p}}
<1>1. S \in SUBSET Values
  BY TypesAre DEF TypeOK
<1>2. LeftOf(k, p) = First({Max} \cup S)
  BY DEF LeftOf
<1>3. /\ LeftOf(k, p) \in Values /\ LeftOf(k, p) \in Nat /\ \A q \in S : LeftOf(k, p) <= q
      /\ LeftOf(k, p) = Max \/ LeftOf(k, p) \in S
  <2> HIDE DEF S
  <2> QED BY <1>1, <1>2, LeastHas
<1> QED BY <1>3

LEMMA LeftOfIs ==
  ASSUME TypeOK, NEW k, NEW p, NEW v \in Values,
         \A i \in held : Pos(k, i) < p => v <= sequence[i],
         v = Max \/ \E i \in held : Pos(k, i) < p /\ sequence[i] <= v
  PROVE  v = LeftOf(k, p)
<1> DEFINE S == {sequence[i] : i \in {j \in held : Pos(k, j) < p}}
<1>1. S \in SUBSET Values
  BY TypesAre DEF TypeOK
<1>2. /\ \A q \in S : v <= q
      /\ v = Max \/ \E q \in S : q <= v
  OBVIOUS
<1>3. v = First({Max} \cup S)
  <2> HIDE DEF S
  <2> QED BY <1>1, <1>2, LeastIs
<1> QED BY <1>3 DEF LeftOf

(* What an element or a child of a node contributes, in a clean tree. *)
LeastAt(k, q) == IF k = 0 THEN sequence[q] ELSE augval[k - 1][q]

LEMMA CleanHas ==
  ASSUME Sound, phase = "clean"
  PROVE  /\ TypeOK /\ FlagsAreExact /\ AugvalsAgree
         /\ Present = held /\ held \subseteq Indices /\ flag[0] = held
         /\ called = {} /\ inserted = {} /\ DOMAIN leaf = {} /\ \A i : ~ Marked(i)
         /\ \A k \in Levels : flag[k] = {Pos(k, i) : i \in held}
         /\ \A k \in Levels : \A i \in held : augval[k][Pos(k + 1, i)] <= sequence[i]
         /\ \A k \in Levels : \A w \in Nodes(k) :
              \/ augval[k][w] = Max
              \/ \E i \in held : Pos(k + 1, i) = w /\ sequence[i] <= augval[k][w]
<1>1. /\ TypeOK /\ AugvalsAgree /\ Bounds /\ FlagsAreExact
      /\ Resting /\ inserted = {} /\ called = {} /\ DOMAIN leaf = {}
  BY DEF Sound, Summaries, PhasesAreApart
<1>2. Present = held /\ held \subseteq Indices
  BY <1>1 DEF Present, TypeOK
<1>3. flag[0] = held
  BY CleanIsExact DEF TreeIsExact
<1>4. \A i : ~ Marked(i)
  BY <1>1, LevelsAre DEF Marked, Climbs, Resting, Idle
<1>5. \A k \in Levels : flag[k] = {Pos(k, i) : i \in held}
  BY <1>1, <1>2 DEF FlagsAreExact
<1>6. \A k \in Levels : \A i \in held : augval[k][Pos(k + 1, i)] <= sequence[i]
  BY <1>1, <1>4, AugvalsBound
<1>7. \A k \in Levels : \A w \in Nodes(k) :
        \/ augval[k][w] = Max
        \/ \E i \in held : Pos(k + 1, i) = w /\ sequence[i] <= augval[k][w]
  BY <1>1, AugvalsBound
<1> QED BY <1>1, <1>2, <1>3, <1>4, <1>5, <1>6, <1>7

LEMMA LeastOfChild ==
  ASSUME Sound, phase = "clean", NEW k \in Levels, NEW q \in flag[k]
  PROVE  /\ LeastAt(k, q) \in Values /\ LeastAt(k, q) \in Nat
         /\ \A i \in held : Pos(k, i) = q => LeastAt(k, q) <= sequence[i]
         /\ LeastAt(k, q) = Max \/ \E i \in held : Pos(k, i) = q /\ sequence[i] <= LeastAt(k, q)
<1>1. TypeOK /\ held \subseteq Indices /\ flag[k] = {Pos(k, i) : i \in held}
  BY CleanHas
<1>2. CASE k = 0
  <2>1. q \in held /\ \A i \in held : Pos(0, i) = i
    BY <1>1, <1>2, WordsAssumption, PositionsInLayer
  <2>2. LeastAt(k, q) = sequence[q] /\ sequence[q] \in Values /\ sequence[q] \in Nat
    BY <1>1, <1>2, <2>1, TypesAre DEF LeastAt
  <2> QED BY <1>2, <2>1, <2>2
<1>3. CASE k # 0
  <2>1. k - 1 \in Levels /\ k - 1 + 1 = k
    BY <1>3, LevelsAre
  <2>2. q \in Nodes(k - 1)
    BY <1>1, <2>1, NodesAbove
  <2>3. LeastAt(k, q) = augval[k - 1][q] /\ augval[k - 1][q] \in Values /\ augval[k - 1][q] \in Nat
    BY <1>1, <1>3, <2>1, <2>2, TypesAre DEF LeastAt
  <2>4. /\ \A i \in held : augval[k - 1][Pos(k - 1 + 1, i)] <= sequence[i]
        /\ \/ augval[k - 1][q] = Max
           \/ \E i \in held : Pos(k - 1 + 1, i) = q /\ sequence[i] <= augval[k - 1][q]
    BY <2>1, <2>2, CleanHas
  <2> QED BY <2>1, <2>3, <2>4
<1> QED BY <1>2, <1>3

(* prefix_min at a bit of a word, from that of its node. *)
LEMMA PrefixIs ==
  ASSUME Sound, phase = "clean", NEW k \in Levels, NEW p \in flag[k]
  PROVE  Prefix(k, p, LeftOf(k + 1, word_id(p))) = LeftOf(k, p)
<1> DEFINE w == word_id(p)
           X == {x \in Word(k, w) : x < p}
           T == {LeastAt(k, q) : q \in X}
           before == LeftOf(k + 1, w)
           v == First({before} \cup T)
<1>1. /\ TypeOK /\ held \subseteq Indices /\ flag[k] = {Pos(k, i) : i \in held}
      /\ FlagsAreExact /\ Present = held
  BY CleanHas
<1>2. \A i \in held : /\ Pos(k, i) \in Nat /\ Pos(k + 1, i) \in Nodes(k)
                      /\ word_id(Pos(k, i)) = Pos(k + 1, i)
  BY <1>1, NodesAbove
<1>3. p \in Nat /\ w \in Nodes(k) /\ w \in Nat
  BY <1>1, <1>2, WordsAssumption, WordsAreNodes DEF Nodes
<1>4. \A q : q \in X <=> q < p /\ \E i \in held : Pos(k, i) = q /\ Pos(k + 1, i) = w
  BY <1>1, <1>3, WordIs
<1>5. \A i \in held : Pos(k, i) < p <=> Pos(k + 1, i) < w \/ Pos(k, i) \in X
  <2> SUFFICES ASSUME NEW i \in held
               PROVE  Pos(k, i) < p <=> Pos(k + 1, i) < w \/ Pos(k, i) \in X
    OBVIOUS
  <2>1. /\ Pos(k, i) <= p => Pos(k + 1, i) <= w
        /\ Pos(k + 1, i) < w => Pos(k, i) < p
        /\ Pos(k + 1, i) \in Nat /\ Pos(k, i) \in Nat
    <3>1. /\ Pos(k, i) <= p => word_id(Pos(k, i)) <= word_id(p)
          /\ word_id(Pos(k, i)) < word_id(p) => Pos(k, i) < p
          /\ word_id(Pos(k, i)) \in Nat
      BY <1>2, <1>3, WordsAssumption, UpKeepsOrder
    <3> QED BY <1>2, <3>1
  <2>2. Pos(k, i) \in X <=> Pos(k, i) < p /\ Pos(k + 1, i) = w
    BY <1>1, <1>2, <1>4
  <2> HIDE DEF X, w
  <2> QED BY <1>3, <2>1, <2>2
<1>6. \A q \in X : q \in flag[k]
  BY <1>1, <1>4
<1>7. T \in SUBSET Nat /\ T \subseteq Values
  BY <1>6, LeastOfChild
<1>8. /\ before \in Values /\ before \in Nat
      /\ \A i \in held : Pos(k + 1, i) < w => before <= sequence[i]
      /\ before = Max \/ \E i \in held : Pos(k + 1, i) < w /\ before = sequence[i]
  BY <1>1, LeftOfHas
<1>9. v \in {before} \cup T /\ v \in Nat /\ \A q \in {before} \cup T : v <= q
  <2>1. {before} \cup T \in SUBSET Nat /\ {before} \cup T # {}
    BY <1>7, <1>8
  <2> HIDE DEF T, before
  <2> QED BY <2>1, FirstIsLeast
<1>10. Prefix(k, p, before) = v
  BY DEF Prefix, LeastAt
<1> HIDE DEF before, v
<1>11. v \in Values
  BY <1>7, <1>8, <1>9
<1>12. \A i \in held : Pos(k, i) < p => v <= sequence[i]
  <2> SUFFICES ASSUME NEW i \in held, Pos(k, i) < p PROVE v <= sequence[i]
    OBVIOUS
  <2>0. sequence[i] \in Nat
    BY <1>1, TypesAre
  <2>1. CASE Pos(k + 1, i) < w
    BY <1>8, <1>9, <2>0, <2>1
  <2>2. CASE Pos(k, i) \in X
    <3>1. LeastAt(k, Pos(k, i)) \in Nat /\ LeastAt(k, Pos(k, i)) <= sequence[i] /\ LeastAt(k, Pos(k, i)) \in T
      BY <1>6, <2>2, LeastOfChild
    <3> QED BY <1>9, <2>0, <3>1
  <2> QED BY <1>5, <2>1, <2>2
<1>13. v = Max \/ \E i \in held : Pos(k, i) < p /\ sequence[i] <= v
  <2>1. CASE v = before
    <3>1. ASSUME NEW i \in held, Pos(k + 1, i) < w, before = sequence[i]
          PROVE  Pos(k, i) < p /\ sequence[i] <= v
      BY <1>5, <1>8, <2>1, <3>1
    <3> QED BY <1>8, <2>1, <3>1
  <2>2. CASE v \in T
    <3>1. PICK q \in X : v = LeastAt(k, q)
      BY <2>2
    <3>2. LeastAt(k, q) = Max \/ \E i \in held : Pos(k, i) = q /\ sequence[i] <= LeastAt(k, q)
      BY <1>6, <3>1, LeastOfChild
    <3> QED BY <1>5, <3>1, <3>2
  <2> QED BY <1>9, <2>1, <2>2
<1>14. v = LeftOf(k, p)
  BY <1>1, <1>11, <1>12, <1>13, LeftOfIs
<1> QED BY <1>10, <1>14 DEF before

(* The nodes that it enters, each with its prefix_min. *)
Entered(k) ==
  IF k = Top THEN IF empty THEN {} ELSE {0}
  ELSE {p \in flag[k + 1] : augval[k][p] <= LeftOf(k + 1, p)}

LEMMA EnteredAre ==
  ASSUME Sound, phase = "clean", NEW k \in Levels, k # Top, NEW p \in Entered(k)
  PROVE  word_id(p) \in Entered(k + 1)
<1>1. /\ TypeOK /\ held \subseteq Indices /\ AugvalsAgree /\ FlagsAreExact /\ Present = held
      /\ \A j \in Levels : flag[j] = {Pos(j, i) : i \in held}
  BY CleanHas
<1>2. k + 1 \in Levels /\ p \in flag[k + 1] /\ augval[k][p] <= LeftOf(k + 1, p)
  BY LevelsAre DEF Entered
<1>3. PICK i \in held : p = Pos(k + 1, i)
  BY <1>1, <1>2
<1>4. /\ i \in Indices /\ word_id(p) = Pos(k + 1 + 1, i) /\ p \in Nat /\ p \in Nodes(k)
      /\ word_id(p) \in Nodes(k + 1)
  BY <1>1, <1>2, <1>3, NodesAbove
<1>5. CASE k + 1 = Top
  <2>1. word_id(p) = 0
    BY <1>4, <1>5, LevelsAre, WordsAssumption, PositionsInLayer
  <2>2. ~ empty
    BY <1>1, <1>3, EmptyIs
  <2> QED BY <1>5, <2>1, <2>2 DEF Entered
<1>6. CASE k + 1 # Top
  <2>1. k + 1 + 1 \in Levels
    BY <1>2, <1>6, LevelsAre
  <2>2. word_id(p) \in flag[k + 1 + 1]
    BY <1>1, <1>3, <1>4, <2>1
  <2>3. augval[k + 1][word_id(p)] <= augval[k][p]
    BY <1>1, <1>3, <1>4, AugvalsFall
  <2> DEFINE a == LeftOf(k + 1, p)
             b == LeftOf(k + 1 + 1, word_id(p))
  <2>4. a <= b
    <3>1. /\ a \in Values /\ a \in Nat /\ \A j \in held : Pos(k + 1, j) < p => a <= sequence[j]
          /\ b = Max \/ \E j \in held : Pos(k + 1 + 1, j) < word_id(p) /\ b = sequence[j]
      BY <1>1, LeftOfHas
    <3> HIDE DEF a, b
    <3>2. ASSUME NEW j \in held, Pos(k + 1 + 1, j) < word_id(p) PROVE Pos(k + 1, j) < p
      <4>1. Pos(k + 1, j) \in Nat /\ word_id(Pos(k + 1, j)) = Pos(k + 1 + 1, j)
        BY <1>1, <1>2, NodesAbove
      <4> QED BY <1>4, <3>2, <4>1, WordsAssumption, UpKeepsOrder
    <3> QED BY <3>1, <3>2, ValuesAre
  <2>5. a \in Nat /\ b \in Nat /\ augval[k][p] \in Nat /\ augval[k + 1][word_id(p)] \in Nat
    BY <1>1, <1>2, <1>4, LeftOfHas, TypesAre
  <2>6. augval[k + 1][word_id(p)] <= b
    <3>1. augval[k][p] <= a
      BY <1>2
    <3> HIDE DEF a, b
    <3> QED BY <2>3, <2>4, <2>5, <3>1
  <2> QED BY <1>6, <2>2, <2>6 DEF Entered
<1> QED BY <1>5, <1>6

LEMMA PrefixSelectedIs ==
  ASSUME Sound, phase = "clean"
  PROVE  \A k \in Levels : PrefixSelected[k] = [p \in Entered(k) |-> LeftOf(k + 1, p)]
<1> DEFINE Before(f, k) ==
             [p \in {q \in flag[k + 1] : word_id(q) \in DOMAIN f[k + 1]} |->
                Prefix(k + 1, p, f[k + 1][word_id(p)])]
           Step(f, k) ==
             IF k = Top THEN [w \in IF empty THEN {} ELSE {0} |-> Max]
             ELSE [p \in {q \in DOMAIN Before(f, k) : augval[k][q] <= Before(f, k)[q]} |-> Before(f, k)[p]]
           Selects(f) == f = [k \in Levels |-> Step(f, k)]
           g == [k \in Levels |-> [p \in Entered(k) |-> LeftOf(k + 1, p)]]
<1>1. TypeOK /\ held \subseteq Indices
  BY CleanHas
<1>2. ASSUME NEW f, NEW k \in Levels, k # Top, f[k + 1] = g[k + 1]
      PROVE  Step(f, k) = g[k]
  <2>1. k + 1 \in Levels
    BY <1>2, LevelsAre
  <2>2. /\ DOMAIN f[k + 1] = Entered(k + 1)
        /\ \A q \in Entered(k + 1) : f[k + 1][q] = LeftOf(k + 1 + 1, q)
    BY <1>2, <2>1
  <2> DEFINE D == {q \in flag[k + 1] : word_id(q) \in Entered(k + 1)}
             F == [p \in D |-> LeftOf(k + 1, p)]
  <2>3. Before(f, k) = F
    <3>1. \A p \in D : Prefix(k + 1, p, f[k + 1][word_id(p)]) = LeftOf(k + 1, p)
      BY <2>1, <2>2, PrefixIs
    <3>2. Before(f, k) = [p \in D |-> Prefix(k + 1, p, f[k + 1][word_id(p)])]
      BY <2>2
    <3> HIDE DEF D, Before
    <3> QED BY <3>1, <3>2
  <2>4. Entered(k) = {q \in D : augval[k][q] <= LeftOf(k + 1, q)}
    <3>1. Entered(k) = {p \in flag[k + 1] : augval[k][p] <= LeftOf(k + 1, p)}
      BY <1>2 DEF Entered
    <3>2. \A p \in Entered(k) : word_id(p) \in Entered(k + 1)
      BY <1>2, EnteredAre
    <3> QED BY <3>1, <3>2
  <2>5. Step(f, k) = [p \in {q \in DOMAIN F : augval[k][q] <= F[q]} |-> F[p]]
    <3> HIDE DEF Before, F
    <3> QED BY <1>2, <2>3
  <2>6. g[k] = [p \in Entered(k) |-> LeftOf(k + 1, p)]
    OBVIOUS
  <2>7. {q \in DOMAIN F : augval[k][q] <= F[q]} = Entered(k) /\ \A p \in Entered(k) : F[p] = LeftOf(k + 1, p)
    BY <2>4
  <2> HIDE DEF Step, F, g
  <2> QED BY <2>5, <2>6, <2>7
<1>3. ASSUME NEW f PROVE Step(f, Top) = g[Top]
  <2>1. Step(f, Top) = [w \in Entered(Top) |-> Max]
    BY DEF Entered
  <2>2. \A w \in Entered(Top) : LeftOf(Top + 1, w) = Max
    <3> SUFFICES ASSUME NEW w \in Entered(Top) PROVE LeftOf(Top + 1, w) = Max
      OBVIOUS
    <3>1. w = 0 /\ \A i \in held : ~ Pos(Top + 1, i) < w
      BY <1>1, LevelsAre, WordsAssumption, PositionsInLayer DEF Entered
    <3> QED BY <1>1, <3>1, LeftOfHas
  <2>3. g[Top] = [w \in Entered(Top) |-> LeftOf(Top + 1, w)]
    BY LevelsAre
  <2> HIDE DEF Step, g
  <2> QED BY <2>1, <2>2, <2>3
<1>4. Selects(g)
  <2>1. \A k \in Levels : Step(g, k) = g[k]
    <3> SUFFICES ASSUME NEW k \in Levels PROVE Step(g, k) = g[k]
      OBVIOUS
    <3> HIDE DEF Step, g
    <3> QED BY <1>2, <1>3
  <2>2. g = [k \in Levels |-> g[k]]
    OBVIOUS
  <2> HIDE DEF g, Step
  <2> QED BY <2>1, <2>2
<1>5. Selects(PrefixSelected)
  <2>1. PrefixSelected = CHOOSE f : Selects(f)
    BY Zenon DEF PrefixSelected
  <2> HIDE DEF Selects
  <2>2. Selects(CHOOSE f : Selects(f))
    BY <1>4, Zenon
  <2> QED BY <2>1, <2>2, Zenon
<1>6. \A k \in Levels : PrefixSelected[k] = Step(PrefixSelected, k)
  <2> HIDE DEF Step
  <2> QED BY <1>5
<1>7. \A k \in Levels : PrefixSelected[k] = g[k]
  <2> HIDE DEF g, Step
  <2>1. PrefixSelected[Top] = g[Top]
    BY <1>3, <1>6, LevelsAre
  <2>2. \A k \in Levels : k # Top /\ PrefixSelected[k + 1] = g[k + 1] => PrefixSelected[k] = g[k]
    BY <1>2, <1>6
  <2> QED BY <2>1, <2>2, WordsAssumption, DownFromTop
<1> QED BY <1>7

LEMMA EnteredHave ==
  ASSUME Sound, phase = "clean"
  PROVE  /\ \A i \in held : word_id(i) \in Entered(0) => \A k \in Levels : Pos(k + 1, i) \in Entered(k)
         /\ \A w \in Entered(0) : \E i \in held : word_id(i) = w
         /\ Entered(0) \subseteq Nodes(0)
         /\ \A i \in PrefixMinima(held) : word_id(i) \in Entered(0)
<1>1. /\ TypeOK /\ held \subseteq Indices /\ FlagsAreExact /\ Present = held
      /\ \A k \in Levels : flag[k] = {Pos(k, i) : i \in held}
      /\ \A k \in Levels : \A i \in held : augval[k][Pos(k + 1, i)] <= sequence[i]
      /\ empty <=> held = {}
  BY CleanHas, EmptyIs
<1>2. ASSUME NEW i \in held, word_id(i) \in Entered(0)
      PROVE  \A k \in Levels : Pos(k + 1, i) \in Entered(k)
  <2> DEFINE f == [k \in Levels |-> Pos(k + 1, i) \in Entered(k)]
             g == [k \in Levels |-> TRUE]
  <2>1. f[0] = g[0]
    <3>1. word_id(i) = Pos(0 + 1, i) /\ 0 \in Levels
      BY <1>1, NodesAbove, LevelsAre
    <3> QED BY <1>2, <3>1
  <2>2. ASSUME NEW k \in Levels, k # 0, f[k - 1] = g[k - 1] PROVE f[k] = g[k]
    <3>1. k - 1 \in Levels /\ k - 1 + 1 = k /\ i \in Indices
      BY <1>1, <2>2, LevelsAre
    <3>2. Pos(k, i) \in Entered(k - 1) /\ word_id(Pos(k, i)) = Pos(k + 1, i)
      BY <2>2, <3>1, NodesAbove
    <3>3. k - 1 # Top
      BY LevelsAre
    <3>4. Pos(k + 1, i) \in Entered(k)
      BY <3>1, <3>2, <3>3, EnteredAre
    <3> QED BY <3>4
  <2>3. \A k \in Levels : f[k] = g[k]
    <3> HIDE DEF f, g
    <3> QED BY <2>1, <2>2, WordsAssumption, UpFromLeaves
  <2> QED BY <2>3
<1>3. ASSUME NEW w \in Entered(0) PROVE w \in Nodes(0) /\ \E i \in held : word_id(i) = w
  <2>1. CASE Top = 0
    <3>1. w = 0 /\ held # {}
      BY <1>1, <1>3, <2>1 DEF Entered
    <3>2. PICK i \in held : TRUE
      BY <3>1
    <3>3. /\ i \in Indices /\ word_id(i) = Pos(1, i) /\ Pos(Layers, i) = 0 /\ Layers = 1
          /\ word_id(i) \in Nodes(0)
      BY <1>1, <2>1, LevelsAre, NodesAbove, WordsAssumption, PositionsInLayer
    <3> QED BY <3>1, <3>3
  <2>2. CASE Top # 0
    <3>1. w \in flag[1] /\ 1 \in Levels
      BY <1>3, <2>2, LevelsAre DEF Entered
    <3> QED BY <1>1, <3>1, NodesAbove
  <2> QED BY <2>1, <2>2
<1>4. ASSUME NEW i \in PrefixMinima(held) PROVE word_id(i) \in Entered(0)
  <2>1. /\ i \in held /\ i \in Indices /\ \A j \in held : j < i => sequence[i] <= sequence[j]
        /\ word_id(i) = Pos(1, i) /\ word_id(i) \in Nodes(0) /\ i \in Nat
    BY <1>1, <1>4, NodesAbove DEF PrefixMinima
  <2>2. CASE Top = 0
    <3>1. word_id(i) = 0
      BY <2>1, <2>2, LevelsAre, WordsAssumption, PositionsInLayer
    <3> QED BY <1>1, <2>1, <2>2, <3>1 DEF Entered
  <2>3. CASE Top # 0
    <3> DEFINE a == LeftOf(0 + 1, word_id(i))
    <3>0. 0 \in Levels /\ 0 + 1 \in Levels /\ Pos(0 + 1, i) = word_id(i)
      BY <2>1, <2>3, LevelsAre
    <3>1. word_id(i) \in flag[0 + 1] /\ augval[0][word_id(i)] <= sequence[i]
      <4>1. flag[0 + 1] = {Pos(0 + 1, j) : j \in held}
        BY <1>1, <3>0
      <4>2. augval[0][Pos(0 + 1, i)] <= sequence[i]
        BY <1>1, <2>1, <3>0
      <4> QED BY <2>1, <3>0, <4>1, <4>2
    <3>2. ASSUME NEW j \in held, Pos(0 + 1, j) < word_id(i) PROVE j < i
      <4>1. word_id(j) = Pos(0 + 1, j) /\ j \in Nat
        BY <1>1, NodesAbove
      <4> QED BY <2>1, <3>2, <4>1, WordsAssumption, UpKeepsOrder
    <3>3. /\ a \in Nat
          /\ a = Max \/ \E j \in held : Pos(0 + 1, j) < word_id(i) /\ a = sequence[j]
      BY <1>1, LeftOfHas
    <3>4. /\ sequence[i] \in Nat /\ sequence[i] <= Max
          /\ augval[0][word_id(i)] \in Nat
      BY <1>1, <2>1, TypesAre, ValuesAre, LevelsAre
    <3> HIDE DEF a
    <3>5. sequence[i] <= a
      BY <2>1, <3>2, <3>3, <3>4
    <3>6. augval[0][word_id(i)] <= a
      BY <3>1, <3>3, <3>4, <3>5
    <3> QED BY <2>3, <3>1, <3>6 DEF Entered, a
  <2> QED BY <2>2, <2>3
<1> QED BY <1>2, <1>3, <1>4

LEMMA ExtractPrefixMinSound ==
  ASSUME Sound, ExtractPrefixMin
  PROVE  Sound' /\ held' = held \ PrefixMinima(held)
<1> DEFINE S == [k \in Levels |-> DOMAIN PrefixSelected[k]]
           kept == [w \in S[0] |->
                     {i \in Word(0, w) : sequence[i] > Prefix(0, i, PrefixSelected[0][w])}]
           aggregate == [w \in S[0] |-> First({Max} \cup {sequence[i] : i \in kept[w]})]
           R == held \ PrefixMinima(held)
<1>1. /\ phase = "clean" /\ Leave(S, kept, aggregate) /\ held' = flag'[0]
      /\ UNCHANGED <<sequence, dirty, phase, threshold, leaf, climber, inserted, called, due>>
  BY DEF ExtractPrefixMin
<1>2. /\ TypeOK /\ FlagsAreExact /\ AugvalsAgree
      /\ Present = held /\ held \subseteq Indices /\ flag[0] = held
      /\ called = {} /\ inserted = {} /\ DOMAIN leaf = {} /\ \A i : ~ Marked(i)
      /\ \A k \in Levels : \A i \in held : augval[k][Pos(k + 1, i)] <= sequence[i]
  BY <1>1, CleanHas
<1>3. Summaries /\ LeastIsBelow /\ LeastIsReached /\ Marking /\ PhasesAreApart
  BY DEF Sound, Bounds
<1>4. /\ \A i \in held : word_id(i) \in Entered(0) => \A k \in Levels : Pos(k + 1, i) \in Entered(k)
      /\ \A w \in Entered(0) : \E i \in held : word_id(i) = w
      /\ Entered(0) \subseteq Nodes(0)
      /\ \A i \in PrefixMinima(held) : word_id(i) \in Entered(0)
  BY <1>1, EnteredHave
<1>5. \A k \in Levels : S[k] = Entered(k)
  BY <1>1, PrefixSelectedIs
<1>6. S[0] = Entered(0) /\ PrefixSelected[0] = [p \in Entered(0) |-> LeftOf(0 + 1, p)]
  BY <1>1, <1>5, PrefixSelectedIs, LevelsAre
<1> HIDE DEF S
<1>7. ASSUME NEW w \in S[0] PROVE kept[w] = {i \in R : word_id(i) = w}
  <2>1. w \in Nodes(0) /\ Word(0, w) = {i \in held : word_id(i) = w}
    BY <1>2, <1>4, <1>6, <1>7, WordIs, LevelsAre
  <2>2. ASSUME NEW i \in held, word_id(i) = w
        PROVE  sequence[i] > Prefix(0, i, PrefixSelected[0][w]) <=> i \notin PrefixMinima(held)
    <3>1. PrefixSelected[0][w] = LeftOf(0 + 1, w)
      BY <1>6, <1>7
    <3>2. Prefix(0, i, LeftOf(0 + 1, w)) = LeftOf(0, i)
      BY <1>1, <1>2, <2>2, PrefixIs, LevelsAre
    <3>3. \A j \in held : Pos(0, j) = j
      BY <1>2, WordsAssumption, PositionsInLayer
    <3>4. /\ LeftOf(0, i) \in Nat
          /\ \A j \in held : Pos(0, j) < i => LeftOf(0, i) <= sequence[j]
          /\ LeftOf(0, i) = Max \/ \E j \in held : Pos(0, j) < i /\ LeftOf(0, i) = sequence[j]
      BY <1>2, LeftOfHas
    <3>5. \A j \in held : sequence[j] \in Nat /\ sequence[j] <= Max
      BY <1>2, TypesAre, ValuesAre
    <3>6. i \in PrefixMinima(held) <=> \A j \in held : j < i => sequence[i] <= sequence[j]
      BY <2>2 DEF PrefixMinima
    <3>7. ASSUME \A j \in held : j < i => sequence[i] <= sequence[j] PROVE ~ (sequence[i] > LeftOf(0, i))
      <4>1. sequence[i] <= LeftOf(0, i)
        BY <2>2, <3>3, <3>4, <3>5, <3>7, ValuesAre
      <4> QED BY <3>4, <3>5, <4>1
    <3>8. ASSUME NEW j \in held, j < i, ~ (sequence[i] <= sequence[j]) PROVE sequence[i] > LeftOf(0, i)
      <4>1. LeftOf(0, i) <= sequence[j]
        BY <3>3, <3>4, <3>8
      <4> QED BY <3>4, <3>5, <3>8, <4>1
    <3> QED BY <3>1, <3>2, <3>6, <3>7, <3>8
  <2>3. kept[w] = {i \in Word(0, w) : sequence[i] > Prefix(0, i, PrefixSelected[0][w])}
    BY <1>7
  <2> HIDE DEF kept
  <2> QED BY <2>1, <2>2, <2>3
<1>8. ASSUME NEW w \in S[0]
      PROVE  /\ aggregate[w] \in Values
             /\ \A i \in kept[w] : aggregate[w] <= sequence[i]
             /\ aggregate[w] = Max \/ \E i \in kept[w] : aggregate[w] = sequence[i]
  <2> DEFINE T == {sequence[i] : i \in kept[w]}
  <2>1. aggregate[w] = First({Max} \cup T)
    BY <1>8
  <2>2. T \in SUBSET Values
    <3>1. kept[w] \subseteq Indices
      <4> HIDE DEF kept
      <4> QED BY <1>2, <1>7, <1>8
    <3>2. \A i \in Indices : sequence[i] \in Values
      BY <1>2, TypesAre
    <3> HIDE DEF kept
    <3> QED BY <3>1, <3>2
  <2>3. /\ First({Max} \cup T) \in Values /\ \A q \in T : First({Max} \cup T) <= q
        /\ First({Max} \cup T) = Max \/ First({Max} \cup T) \in T
    <3> HIDE DEF T
    <3> QED BY <2>2, LeastHas
  <2> HIDE DEF aggregate, kept
  <2> QED BY <2>1, <2>3
<1> HIDE DEF kept, aggregate, R
<1>9. R \subseteq held /\ \A i \in held : word_id(i) \notin S[0] => i \in R
  BY <1>4, <1>6 DEF R
<1>10. Remains(S, kept, aggregate, R)
  BY <1>2, <1>4, <1>5, <1>6, <1>7, <1>8, <1>9 DEF Remains
<1>11. held' = R
  <2>1. flag'[0] = {Pos(0, i) : i \in R}
    BY <1>1, <1>2, <1>3, <1>10, LeaveIs, LevelsAre
  <2>2. \A i \in R : Pos(0, i) = i
    BY <1>2, <1>9, WordsAssumption, PositionsInLayer
  <2> QED BY <1>1, <2>1, <2>2
<1>12. Present' = R
  BY <1>1, <1>2, <1>11 DEF Present
<1>13. \A w \in S[0] : kept[w] = {} => aggregate[w] = Max
  BY <1>8
<1>14. /\ Summaries'
       /\ \A k \in Levels : \A p \in flag'[k] : p \in Indices /\ p \in 0..(Length(k) - 1)
       /\ flag' \in [Levels -> SUBSET Indices]
       /\ \A k \in Levels : augval'[k] \in [Nodes(k) -> Values]
       /\ \A w \in Nodes(0) : augval'[0][w] = NewLeast(S, aggregate, w)
  BY <1>1, <1>2, <1>3, <1>10, <1>12, <1>13, LeaveSound
<1>15. TypeOK'
  BY <1>1, <1>2, <1>9, <1>11, <1>14 DEF TypeOK
<1>16. Marking'
  BY <1>1, <1>3 DEF Marking, AllOwed, Owed, Lacks, Owes, HasDirty, InsertedIsDirty
<1>17. PhasesAreApart'
  BY <1>1, <1>3 DEF PhasesAreApart, Resting
<1>18. LeastIsBelow'
  <2> SUFFICES ASSUME NEW i \in R PROVE NewLeast(S, aggregate, word_id(i)) <= sequence[i]
    BY <1>1, <1>2, <1>9, <1>11, <1>14, NodesAbove DEF LeastIsBelow
  <2>1. CASE word_id(i) \in S[0]
    BY <1>7, <1>8, <2>1 DEF NewLeast
  <2>2. CASE word_id(i) \notin S[0]
    BY <1>2, <1>3, <1>9, <2>2 DEF NewLeast, LeastIsBelow
  <2> QED BY <2>1, <2>2
<1>19. LeastIsReached'
  <2> SUFFICES ASSUME NEW w \in Nodes(0)
               PROVE  \/ NewLeast(S, aggregate, w) = Max
                      \/ \E i \in R : word_id(i) = w /\ sequence[i] <= NewLeast(S, aggregate, w)
    BY <1>1, <1>2, <1>11, <1>14 DEF LeastIsReached
  <2>1. CASE w \in S[0]
    <3>1. ASSUME NEW i \in kept[w], aggregate[w] = sequence[i]
          PROVE  i \in R /\ word_id(i) = w /\ sequence[i] <= aggregate[w]
      <4>1. i \in R /\ word_id(i) = w
        BY <1>7, <2>1, <3>1
      <4>2. sequence[i] \in Nat
        BY <1>2, <1>9, <4>1, TypesAre
      <4> QED BY <3>1, <4>1, <4>2
    <3> QED BY <1>8, <2>1, <3>1 DEF NewLeast
  <2>2. CASE w \notin S[0]
    BY <1>2, <1>3, <1>9, <2>2 DEF NewLeast, LeastIsReached
  <2> QED BY <2>1, <2>2
<1>20. Extraction'
  BY <1>1 DEF Extraction
<1> QED BY <1>11, <1>14, <1>15, <1>16, <1>17, <1>18, <1>19, <1>20 DEF Sound, Bounds, R

-----------------------------------------------------------------------------
(* The constructor: with all flags and the least values, or with none. *)

LeastOfAll(k, w) == First({Max} \cup {sequence[i] : i \in {j \in Indices : Pos(k + 1, j) = w}})

LEMMA LeastOfAllHas ==
  ASSUME sequence \in [Indices -> Values], NEW k, NEW w
  PROVE  /\ LeastOfAll(k, w) \in Values /\ LeastOfAll(k, w) \in Nat
         /\ \A i \in Indices : Pos(k + 1, i) = w => LeastOfAll(k, w) <= sequence[i]
         /\ \/ LeastOfAll(k, w) = Max
            \/ \E i \in Indices : Pos(k + 1, i) = w /\ sequence[i] = LeastOfAll(k, w)
<1> DEFINE S == {sequence[i] : i \in {j \in Indices : Pos(k + 1, j) = w}}
<1>1. S \in SUBSET Values
  OBVIOUS
<1>2. LeastOfAll(k, w) = First({Max} \cup S)
  BY DEF LeastOfAll
<1>3. /\ LeastOfAll(k, w) \in Values /\ LeastOfAll(k, w) \in Nat
      /\ \A q \in S : LeastOfAll(k, w) <= q
      /\ LeastOfAll(k, w) = Max \/ LeastOfAll(k, w) \in S
  <2> HIDE DEF S
  <2> QED BY <1>1, <1>2, LeastHas
<1> QED BY <1>3

AllStep(f, k, w) ==
  First({Max} \cup {IF k = 0 THEN sequence[p] ELSE f[k - 1][p] : p \in OfWord(w) \cap 0..(Length(k) - 1)})

LEMMA AllStepIs ==
  ASSUME sequence \in [Indices -> Values], NEW k \in Levels, NEW w \in Nodes(k), NEW f,
         k = 0 \/ f[k - 1] = [p \in Nodes(k - 1) |-> LeastOfAll(k - 1, p)]
  PROVE  AllStep(f, k, w) = LeastOfAll(k, w)
<1> DEFINE P == OfWord(w) \cap 0..(Length(k) - 1)
           T == {IF k = 0 THEN sequence[p] ELSE f[k - 1][p] : p \in P}
           S == {sequence[i] : i \in {j \in Indices : Pos(k + 1, j) = w}}
           v == First({Max} \cup T)
<1>1. w \in Nat /\ \A p \in 0..(Length(k) - 1) : p \in Nat /\ word_id(p) \in Nodes(k)
  BY WordsAssumption, WordsAreNodes DEF Nodes
<1>2. \A p : p \in P <=> p \in 0..(Length(k) - 1) /\ word_id(p) = w
  BY <1>1, WordsAssumption, InWord
<1>3. \A i \in Indices : /\ Pos(k, i) \in 0..(Length(k) - 1)
                         /\ word_id(Pos(k, i)) = Pos(k + 1, i)
  BY NodesAbove
<1>4. S \in SUBSET Values
  OBVIOUS
<1>5. CASE k = 0
  <2>1. 0..(Length(0) - 1) = Indices /\ \A i \in Indices : Pos(0, i) = i
    BY WordsAssumption, LengthsDiffer, PositionsInLayer
  <2>2. P = {i \in Indices : Pos(k + 1, i) = w}
    <3>1. \A i \in Indices : word_id(i) = Pos(k + 1, i)
      BY <1>3, <1>5, <2>1
    <3>2. \A p : p \in P <=> p \in Indices /\ word_id(p) = w
      BY <1>2, <1>5, <2>1
    <3> HIDE DEF P
    <3> QED BY <3>1, <3>2
  <2>3. T = S
    BY <1>5, <2>2
  <2> QED BY <2>3 DEF AllStep, LeastOfAll
<1>6. CASE k # 0
  <2>1. k - 1 \in Levels /\ k - 1 + 1 = k
    BY <1>6, LevelsAre
  <2>2. \A p \in P : p \in Nodes(k - 1)
    BY <1>2, <2>1, WordsAssumption, WordsAreNodes DEF Nodes
  <2>3. \A p \in P :
          /\ f[k - 1][p] \in Values /\ f[k - 1][p] \in Nat
          /\ \A i \in Indices : Pos(k, i) = p => f[k - 1][p] <= sequence[i]
          /\ f[k - 1][p] = Max \/ \E i \in Indices : Pos(k, i) = p /\ sequence[i] = f[k - 1][p]
    <3> SUFFICES ASSUME NEW p \in P
                 PROVE  /\ f[k - 1][p] \in Values /\ f[k - 1][p] \in Nat
                        /\ \A i \in Indices : Pos(k, i) = p => f[k - 1][p] <= sequence[i]
                        /\ \/ f[k - 1][p] = Max
                           \/ \E i \in Indices : Pos(k, i) = p /\ sequence[i] = f[k - 1][p]
      OBVIOUS
    <3>1. f[k - 1][p] = LeastOfAll(k - 1, p)
      <4> HIDE DEF P
      <4> QED BY <1>6, <2>2
    <3>2. /\ LeastOfAll(k - 1, p) \in Values /\ LeastOfAll(k - 1, p) \in Nat
          /\ \A i \in Indices : Pos(k - 1 + 1, i) = p => LeastOfAll(k - 1, p) <= sequence[i]
          /\ \/ LeastOfAll(k - 1, p) = Max
             \/ \E i \in Indices : Pos(k - 1 + 1, i) = p /\ sequence[i] = LeastOfAll(k - 1, p)
      BY LeastOfAllHas
    <3> QED BY <2>1, <3>1, <3>2
  <2> HIDE DEF P
  <2>4. T = {f[k - 1][p] : p \in P}
    BY <1>6
  <2>5. T \in SUBSET Values
    BY <2>3, <2>4
  <2>6. v \in Values /\ v \in Nat /\ (\A q \in T : v <= q) /\ (v = Max \/ v \in T)
    <3> HIDE DEF T
    <3> QED BY <2>5, LeastHas
  <2> HIDE DEF v, T
  <2>7. \A q \in S : v <= q
    <3> SUFFICES ASSUME NEW i \in Indices, Pos(k + 1, i) = w PROVE v <= sequence[i]
      OBVIOUS
    <3>1. Pos(k, i) \in P
      BY <1>2, <1>3
    <3>2. f[k - 1][Pos(k, i)] \in T /\ f[k - 1][Pos(k, i)] \in Nat /\ f[k - 1][Pos(k, i)] <= sequence[i]
      BY <2>3, <2>4, <3>1
    <3>3. v <= f[k - 1][Pos(k, i)] /\ sequence[i] \in Nat
      BY <2>6, <3>2, ValuesAre
    <3> QED BY <2>6, <3>2, <3>3
  <2>8. v = Max \/ \E q \in S : q <= v
    <3> SUFFICES ASSUME v # Max PROVE \E i \in Indices : Pos(k + 1, i) = w /\ sequence[i] <= v
      OBVIOUS
    <3>1. PICK p \in P : v = f[k - 1][p]
      BY <2>4, <2>6
    <3>2. PICK i \in Indices : Pos(k, i) = p /\ sequence[i] = v
      BY <2>3, <3>1
    <3>3. Pos(k + 1, i) = w
      BY <1>2, <1>3, <3>1, <3>2
    <3> QED BY <2>6, <3>2, <3>3
  <2> HIDE DEF S
  <2>9. v = First({Max} \cup S)
    BY <1>4, <2>6, <2>7, <2>8, LeastIs
  <2> QED BY <2>9 DEF AllStep, LeastOfAll, S, T, v, P
<1> QED BY <1>5, <1>6

LEMMA AllBelowIs ==
  ASSUME sequence \in [Indices -> Values]
  PROVE  AllBelow = [k \in Levels |-> [w \in Nodes(k) |-> LeastOfAll(k, w)]]
<1> DEFINE Computes(f) == f = [k \in Levels |-> [w \in Nodes(k) |-> AllStep(f, k, w)]]
           g == [k \in Levels |-> [w \in Nodes(k) |-> LeastOfAll(k, w)]]
<1>1. ASSUME NEW f, NEW k \in Levels, k = 0 \/ f[k - 1] = g[k - 1]
      PROVE  \A w \in Nodes(k) : AllStep(f, k, w) = LeastOfAll(k, w)
  <2>1. k = 0 \/ f[k - 1] = [p \in Nodes(k - 1) |-> LeastOfAll(k - 1, p)]
    BY <1>1, LevelsAre
  <2> QED BY <2>1, AllStepIs
<1>2. Computes(g)
  <2>1. \A k \in Levels : [w \in Nodes(k) |-> AllStep(g, k, w)] = [w \in Nodes(k) |-> LeastOfAll(k, w)]
    BY <1>1
  <2>2. g = [k \in Levels |-> [w \in Nodes(k) |-> LeastOfAll(k, w)]]
    OBVIOUS
  <2> HIDE DEF g
  <2> QED BY <2>1, <2>2
<1>3. AllBelow = CHOOSE f : Computes(f)
  BY Zenon DEF AllBelow, AllStep
<1>4. Computes(AllBelow)
  <2> HIDE DEF Computes
  <2>1. Computes(CHOOSE f : Computes(f))
    BY <1>2, Zenon
  <2> QED BY <1>3, <2>1, Zenon
<1>5. \A k \in Levels : AllBelow[k] = [w \in Nodes(k) |-> AllStep(AllBelow, k, w)]
  BY <1>4
<1>6. \A k \in Levels : k = 0 \/ AllBelow[k - 1] = g[k - 1] => AllBelow[k] = g[k]
  <2> SUFFICES ASSUME NEW k \in Levels, k = 0 \/ AllBelow[k - 1] = g[k - 1] PROVE AllBelow[k] = g[k]
    OBVIOUS
  <2>1. \A w \in Nodes(k) : AllStep(AllBelow, k, w) = LeastOfAll(k, w)
    BY <1>1
  <2>2. g[k] = [w \in Nodes(k) |-> LeastOfAll(k, w)]
    OBVIOUS
  <2> HIDE DEF g
  <2> QED BY <1>5, <2>1, <2>2
<1>7. \A k \in Levels : AllBelow[k] = g[k]
  <2> HIDE DEF g
  <2> QED BY <1>6, WordsAssumption, UpFromLeaves, LevelsAre
<1> QED BY <1>4, <1>7

LEMMA InitSound ==
  ASSUME Init
  PROVE  Sound
<1> PICK init_value \in BOOLEAN :
      /\ flag = [k \in Levels |-> IF init_value THEN InUse(k) ELSE {}]
      /\ augval = IF init_value THEN AllBelow ELSE [k \in Levels |-> [w \in Nodes(k) |-> Max]]
      /\ held = IF init_value THEN Indices ELSE {}
  BY DEF Init
<1>1. /\ sequence \in [Indices -> Values]
      /\ dirty = [k \in Levels |-> {}]
      /\ phase = "clean" /\ threshold = 0 /\ leaf = <<>>
      /\ climber = [t \in Threads |-> Idle]
      /\ inserted = {} /\ called = {} /\ due = {}
  BY DEF Init
<1>2. \A k \in Levels : flag[k] = {Pos(k, i) : i \in held}
  <2> SUFFICES ASSUME NEW k \in Levels PROVE flag[k] = {Pos(k, i) : i \in held}
    OBVIOUS
  <2>1. CASE init_value
    <3>1. \A p \in 0..(Length(k) - 1) : \E i \in Indices : Pos(k, i) = p
      BY WordsAssumption, SomeBelow, Parameters
    <3>2. \A i \in Indices : Pos(k, i) \in 0..(Length(k) - 1)
      BY NodesAbove
    <3>3. flag[k] = 0..(Length(k) - 1) /\ held = Indices
      BY <2>1 DEF InUse
    <3> QED BY <3>1, <3>2, <3>3
  <2>2. CASE ~ init_value
    BY <2>2
  <2> QED BY <2>1, <2>2
<1>3. /\ held \subseteq Indices /\ Present = held
      /\ \A k \in Levels : \A w \in Nodes(k) :
           /\ augval[k][w] \in Values
           /\ \A i \in held : Pos(k + 1, i) = w => augval[k][w] <= sequence[i]
           /\ \/ augval[k][w] = Max
              \/ \E i \in held : Pos(k + 1, i) = w /\ sequence[i] <= augval[k][w]
      /\ \A k \in Levels : augval[k] \in [Nodes(k) -> Values]
  <2>1. CASE init_value
    <3>1. held = Indices /\ Present = held
      BY <1>1, <2>1 DEF Present
    <3>2. \A k \in Levels : augval[k] = [w \in Nodes(k) |-> LeastOfAll(k, w)]
      BY <1>1, <2>1, AllBelowIs
    <3>3. \A k, w : /\ LeastOfAll(k, w) \in Values
                    /\ \A i \in Indices : Pos(k + 1, i) = w => LeastOfAll(k, w) <= sequence[i]
                    /\ \/ LeastOfAll(k, w) = Max
                       \/ \E i \in Indices : Pos(k + 1, i) = w /\ sequence[i] <= LeastOfAll(k, w)
      <4> SUFFICES ASSUME NEW k, NEW w
                   PROVE  /\ LeastOfAll(k, w) \in Values
                          /\ \A i \in Indices : Pos(k + 1, i) = w => LeastOfAll(k, w) <= sequence[i]
                          /\ \/ LeastOfAll(k, w) = Max
                             \/ \E i \in Indices : /\ Pos(k + 1, i) = w
                                                   /\ sequence[i] <= LeastOfAll(k, w)
        OBVIOUS
      <4>1. /\ LeastOfAll(k, w) \in Values /\ LeastOfAll(k, w) \in Nat
            /\ \A i \in Indices : Pos(k + 1, i) = w => LeastOfAll(k, w) <= sequence[i]
            /\ \/ LeastOfAll(k, w) = Max
               \/ \E i \in Indices : Pos(k + 1, i) = w /\ sequence[i] = LeastOfAll(k, w)
        BY <1>1, LeastOfAllHas
      <4>2. LeastOfAll(k, w) <= LeastOfAll(k, w)
        BY <4>1
      <4>3. \A i \in Indices : sequence[i] = LeastOfAll(k, w) => sequence[i] <= LeastOfAll(k, w)
        BY <4>2, Zenon
      <4>4. \/ LeastOfAll(k, w) = Max
            \/ \E i \in Indices : Pos(k + 1, i) = w /\ sequence[i] <= LeastOfAll(k, w)
        BY <4>1, <4>3, Zenon
      <4> QED BY <4>1, <4>4, Zenon
    <3>4. \A k \in Levels : augval[k] \in [Nodes(k) -> Values]
      <4> SUFFICES ASSUME NEW k \in Levels PROVE augval[k] \in [Nodes(k) -> Values]
        OBVIOUS
      <4>1. augval[k] = [w \in Nodes(k) |-> LeastOfAll(k, w)]
        BY <3>2
      <4>2. \A w \in Nodes(k) : LeastOfAll(k, w) \in Values
        BY <3>3
      <4> QED BY <4>1, <4>2, Zenon
    <3>5. \A k \in Levels : \A w \in Nodes(k) : augval[k][w] = LeastOfAll(k, w)
      BY <3>2
    <3>6. \A k \in Levels : \A w \in Nodes(k) :
            /\ augval[k][w] \in Values
            /\ \A i \in held : Pos(k + 1, i) = w => augval[k][w] <= sequence[i]
            /\ \/ augval[k][w] = Max
               \/ \E i \in held : Pos(k + 1, i) = w /\ sequence[i] <= augval[k][w]
      <4> SUFFICES ASSUME NEW k \in Levels, NEW w \in Nodes(k)
                   PROVE  /\ LeastOfAll(k, w) \in Values
                          /\ \A i \in held : Pos(k + 1, i) = w => LeastOfAll(k, w) <= sequence[i]
                          /\ \/ LeastOfAll(k, w) = Max
                             \/ \E i \in held : Pos(k + 1, i) = w /\ sequence[i] <= LeastOfAll(k, w)
        BY <3>5
      <4> QED BY <3>1, <3>3
    <3> QED BY <3>1, <3>4, <3>6
  <2>2. CASE ~ init_value
    BY <1>1, <2>2, ValuesAre DEF Present
  <2> QED BY <2>1, <2>2
<1>4. TypeOK
  <2>1. \A k \in Levels : flag[k] \subseteq Indices /\ flag[k] \subseteq 0..(Length(k) - 1)
    BY <1>2, <1>3, NodesAbove
  <2>2. DOMAIN <<>> = {} /\ 0 \in Values /\ 0 \in Indices /\ Layers \in 0..Layers
    BY WordsAssumption, Parameters, ValuesAre DEF Values
  <2>3. climber \in [Threads -> [index : Indices, layer : 0..Layers]]
    BY <1>1, <2>2 DEF Idle
  <2>4. flag \in [Levels -> SUBSET Indices]
    <3>1. flag = [k \in Levels |-> flag[k]]
      OBVIOUS
    <3> QED BY <2>1, <3>1
  <2> QED BY <1>1, <1>3, <2>1, <2>2, <2>3, <2>4 DEF TypeOK
<1>5. Resting /\ DOMAIN leaf = {} /\ \A i : ~ Marked(i)
  BY <1>1, LevelsAre DEF Resting, Marked, Climbs, Idle
<1>6. Marking
  <2>1. AllOwed
    <3> SUFFICES ASSUME NEW k \in 1..Top, NEW p \in 0..(Length(k) - 1) PROVE Owed(k, p)
      BY DEF AllOwed
    <3>1. k \in Levels /\ k - 1 \in Levels /\ k # Layers
      BY LevelsAre
    <3>2. dirty[k] = {} /\ ~ HasDirty(k - 1, p) /\ \A t \in Threads : ~ Owes(t, k, p)
      BY <1>1, <3>1 DEF HasDirty, Owes, Idle
    <3> QED BY <3>2 DEF Owed, Lacks
  <2>2. InsertedIsDirty
    BY <1>1, LevelsAre DEF InsertedIsDirty, Idle
  <2> QED BY <2>1, <2>2 DEF Marking
<1>7. PhasesAreApart
  BY <1>1, <1>5 DEF PhasesAreApart
<1>8. FlagsAreExact
  BY <1>2, <1>3 DEF FlagsAreExact
<1>9. \A i \in Indices : word_id(i) \in Nodes(0) /\ word_id(i) = Pos(0 + 1, i) /\ 0 \in Levels
  BY NodesAbove, LevelsAre
<1>10. /\ \A w \in Nodes(0) :
            /\ augval[0][w] \in Values
            /\ \/ augval[0][w] = Max
               \/ \E i \in held : word_id(i) = w /\ sequence[i] <= augval[0][w]
       /\ \A i \in held : augval[0][word_id(i)] <= sequence[i]
  <2>1. \A w \in Nodes(0) :
          /\ augval[0][w] \in Values
          /\ \A i \in held : Pos(0 + 1, i) = w => augval[0][w] <= sequence[i]
          /\ \/ augval[0][w] = Max
             \/ \E i \in held : Pos(0 + 1, i) = w /\ sequence[i] <= augval[0][w]
    BY <1>3, LevelsAre
  <2> QED BY <1>3, <1>9, <2>1
<1>11. Bounds
  BY <1>10 DEF Bounds, LeastIsBelow, LeastIsReached
<1>12. NoneIsMax
  BY <1>3, <1>10 DEF NoneIsMax
<1>13. AugvalsAgree
  <2> SUFFICES ASSUME NEW k \in Levels, NEW w \in Nodes(k)
               PROVE  augval[k][w] = First({Max} \cup LeavesBelow(k, w))
    BY DEF AugvalsAgree
  <2>1. /\ augval[k][w] \in Values
        /\ \A i \in held : Pos(k + 1, i) = w => augval[k][w] <= sequence[i]
        /\ \/ augval[k][w] = Max
           \/ \E i \in held : Pos(k + 1, i) = w /\ sequence[i] <= augval[k][w]
    BY <1>3
  <2>2. LeavesBelow(k, w) \in SUBSET Values
    BY <1>9, <1>10 DEF LeavesBelow
  <2>3. \A q \in LeavesBelow(k, w) : augval[k][w] <= q
    <3> SUFFICES ASSUME NEW i \in Indices, Pos(k + 1, i) = w PROVE augval[k][w] <= augval[0][word_id(i)]
      BY DEF LeavesBelow
    <3>1. augval[0][word_id(i)] \in Nat /\ augval[k][w] \in Nat /\ augval[k][w] <= Max
      BY <1>9, <1>10, <2>1, ValuesAre
    <3>2. CASE augval[0][word_id(i)] = Max
      BY <3>1, <3>2
    <3>3. ASSUME NEW j \in held, word_id(j) = word_id(i), sequence[j] <= augval[0][word_id(i)]
          PROVE  augval[k][w] <= augval[0][word_id(i)]
      <4>1. Pos(k + 1, j) = w
        BY <1>3, <3>3, WordsAssumption, TogetherAbove
      <4>2. augval[k][w] <= sequence[j] /\ sequence[j] \in Nat
        BY <1>1, <1>3, <2>1, <4>1, ValuesAre
      <4> QED BY <3>1, <3>3, <4>2
    <3> QED BY <1>9, <1>10, <3>2, <3>3
  <2>4. augval[k][w] = Max \/ \E q \in LeavesBelow(k, w) : q <= augval[k][w]
    <3>1. ASSUME NEW i \in held, Pos(k + 1, i) = w, sequence[i] <= augval[k][w]
          PROVE  augval[0][word_id(i)] \in LeavesBelow(k, w) /\ augval[0][word_id(i)] <= augval[k][w]
      <4>1. /\ augval[0][word_id(i)] \in Nat /\ augval[k][w] \in Nat /\ sequence[i] \in Nat
            /\ augval[0][word_id(i)] <= sequence[i]
        BY <1>1, <1>3, <1>9, <1>10, <2>1, ValuesAre
      <4> QED BY <1>3, <3>1, <4>1 DEF LeavesBelow
    <3> QED BY <2>1, <3>1
  <2> QED BY <2>1, <2>2, <2>3, <2>4, LeastIs
<1>14. Extraction
  BY <1>1 DEF Extraction
<1> QED BY <1>4, <1>6, <1>7, <1>8, <1>11, <1>12, <1>13, <1>14 DEF Sound, Summaries

-----------------------------------------------------------------------------
(* The results. *)

LEMMA StepSound ==
  ASSUME Sound, [Next]_vars
  PROVE  Sound'
<1>1. ASSUME NEW t \in Threads, Insert(t) PROVE Sound'
  BY <1>1, InsertSound
<1>2. ASSUME NEW t \in Threads, NEW i \in Indices, NEW v \in Values, Lower(t, i, v) PROVE Sound'
  BY <1>2, LowerSound
<1>3. CASE Repair
  BY <1>3, RepairSound
<1>4. ASSUME NEW h \in Values, ExtractMin(h) PROVE Sound'
  BY <1>4, ExtractMinSound
<1>5. ASSUME NEW w \in DOMAIN leaf, LeafTest(w) PROVE Sound'
  BY <1>5, LeafTestSound
<1>6. ASSUME NEW w \in DOMAIN leaf, LeafKeep(w) PROVE Sound'
  BY <1>6, LeafKeepSound
<1>7. CASE Finish
  BY <1>7, FinishSound
<1>8. CASE ExtractPrefixMin
  BY <1>8, ExtractPrefixMinSound
<1>9. CASE UNCHANGED vars
  <2>1. UNCHANGED <<sequence, flag, dirty, augval, phase, threshold, leaf, climber,
                    held, inserted, called, due>>
    BY <1>9 DEF vars, tree, history
  <2>2. TypeOK' /\ Marking' /\ PhasesAreApart'
    BY <2>1 DEF Sound, TypeOK, Marking, AllOwed, Owed, Lacks, Owes, HasDirty, InsertedIsDirty,
                PhasesAreApart, Resting
  <2>3. Marks
    BY <2>1, TypesAre DEF Sound, Marks, Marked, Climbs
  <2> QED BY <2>2, <2>3, MarksKeep DEF Sound
<1> QED BY <1>1, <1>2, <1>3, <1>4, <1>5, <1>6, <1>7, <1>8, <1>9 DEF Next

LEMMA SoundIsDirtyIsOwed ==
  ASSUME Sound
  PROVE  DirtyIsOwed
<1> SUFFICES ASSUME NEW k \in 1..Top, NEW p \in 0..(Length(k) - 1)
             PROVE  LET owing == {t \in Threads : climber[t].layer = k /\ Pos(k, climber[t].index) = p}
                        some  == dirty[k - 1] \cap OfWord(p) # {}
                    IN  /\ p \in dirty[k] => some
                        /\ Cardinality(owing) = IF some /\ p \notin dirty[k] THEN 1 ELSE 0
  BY DEF DirtyIsOwed
<1> DEFINE owing == {t \in Threads : climber[t].layer = k /\ Pos(k, climber[t].index) = p}
           some == dirty[k - 1] \cap OfWord(p) # {}
<1>1. TypeOK /\ Owed(k, p) /\ k - 1 \in Levels /\ k \in Levels
  BY LevelsAre DEF Sound, Marking, AllOwed
<1>2. p \in Nat
  BY WordsAssumption, WordsAreNodes, <1>1
<1>3. some <=> HasDirty(k - 1, p)
  BY <1>1, <1>2, DirtyIs DEF HasDirty
<1>4. owing = {t \in Threads : Owes(t, k, p)}
  BY DEF Owes
<1> HIDE DEF owing, some
<1>5. p \in dirty[k] => some
  BY <1>1, <1>3 DEF Owed
<1>6. CASE some /\ p \notin dirty[k]
  <2>1. PICK t \in Threads : Owes(t, k, p)
    BY <1>1, <1>3, <1>6 DEF Owed, Lacks
  <2>2. owing = {t}
    BY <1>1, <1>4, <2>1 DEF Owed
  <2>3. Cardinality(owing) = 1
    BY <2>2, FS_Singleton
  <2> QED BY <1>5, <1>6, <2>3 DEF owing, some
<1>7. CASE ~ (some /\ p \notin dirty[k])
  <2>1. owing = {}
    BY <1>1, <1>3, <1>4, <1>7 DEF Owed, Lacks
  <2>2. Cardinality(owing) = 0
    BY <2>1, FS_EmptySet
  <2> QED BY <1>5, <1>7, <2>2 DEF owing, some
<1> QED BY <1>6, <1>7

LEMMA SoundIsMapInvariant ==
  ASSUME Sound
  PROVE  MapInvariant
<1>1. TreeIsExact
  BY CleanIsExact DEF TreeIsExact
<1> QED BY <1>1, SoundIsDirtyIsOwed DEF Sound, MapInvariant

LEMMA SoundExtracts ==
  ASSUME Sound
  PROVE  ExtractsTheMinima
<1> SUFFICES ASSUME Joined
             PROVE  /\ due \subseteq called
                    /\ \A i \in held : i \in inserted \/ sequence[i] > threshold
  BY DEF ExtractsTheMinima
<1>1. /\ phase = "extract" /\ \A w \in DOMAIN leaf : leaf[w].todo = {}
      /\ \A i : Marked(i) => i \in inserted
  BY LevelsAre DEF Joined, Resting, Marked, Climbs, Idle
<1>2. /\ TypeOK
      /\ \A w \in DOMAIN leaf : LeafIsSound(w)
      /\ \A i \in called \cup due : word_id(i) \in DOMAIN leaf
      /\ due \subseteq Present
      /\ \A i \in held : ~ Marked(i) /\ sequence[i] <= threshold => i \in due
  BY <1>1 DEF Sound, Extraction
<1>3. \A i \in held : i \notin due
  <2> SUFFICES ASSUME NEW i \in held, i \in due PROVE FALSE
    OBVIOUS
  <2>1. LeafIsSound(word_id(i)) /\ leaf[word_id(i)].todo = {}
    BY <1>1, <1>2
  <2> QED BY <2>1 DEF LeafIsSound
<1>4. due \subseteq called
  BY <1>2, <1>3 DEF Present
<1>5. ASSUME NEW i \in held, i \notin inserted PROVE sequence[i] > threshold
  <2>1. ~ (sequence[i] <= threshold)
    BY <1>1, <1>2, <1>3, <1>5
  <2>2. sequence[i] \in Nat /\ threshold \in Nat
    BY <1>2, TypesAre, ValuesAre DEF TypeOK
  <2> QED BY <2>1, <2>2
<1> QED BY <1>4, <1>5

LEMMA StepTakesPrefixMinima ==
  ASSUME Sound, [Next]_vars, phase = "clean", phase' = "clean"
  PROVE  held' = held \ PrefixMinima(held) \/ UNCHANGED vars
<1>1. Resting /\ DOMAIN leaf = {}
  BY DEF Sound, PhasesAreApart
<1>2. \A t \in Threads : ~ Insert(t)
  BY <1>1, LevelsAre DEF Insert, Resting, Idle
<1>3. \A t \in Threads : \A i \in Indices, v \in Values : ~ Lower(t, i, v)
  BY DEF Lower
<1>4. ~ Repair /\ ~ Finish /\ \A h \in Values : ~ ExtractMin(h)
  BY DEF Repair, Finish, Joined, ExtractMin
<1>5. ExtractPrefixMin => held' = held \ PrefixMinima(held)
  BY ExtractPrefixMinSound
<1> QED BY <1>1, <1>2, <1>3, <1>4, <1>5 DEF Next

LEMMA Soundness == Spec => []Sound
<1>1. Init => Sound
  BY InitSound
<1>2. Sound /\ [Next]_vars => Sound'
  BY StepSound
<1> QED BY <1>1, <1>2, PTL DEF Spec

(***************************************************************************)
(* After a repair the tree is exact, whatever insertions raced with the    *)
(* extraction before it, and a word of dirty bits has its bit above or     *)
(* exactly one thread about to set it: repair reaches every dirty bit and  *)
(* the fetch_add of insert never carries.                                  *)
(***************************************************************************)
THEOREM TreeIsRepaired == Spec => []MapInvariant
<1>1. Sound => MapInvariant
  BY SoundIsMapInvariant
<1> QED BY <1>1, Soundness, PTL

(***************************************************************************)
(* extract_min calls f on every element that was at most the threshold     *)
(* when it began, although f may lower any value meanwhile; what it leaves *)
(* is above the threshold or marked for the next repair.                   *)
(***************************************************************************)
THEOREM MinimaAreExtracted == Spec => []ExtractsTheMinima
<1>1. Sound => ExtractsTheMinima
  BY SoundExtracts
<1> QED BY <1>1, Soundness, PTL

(***************************************************************************)
(* extract_prefix_min takes out exactly the elements that no element       *)
(* before them is smaller than.                                            *)
(***************************************************************************)
THEOREM PrefixMinimaAreTaken == Spec => TakesPrefixMinima
<1>1. Sound /\ [Next]_vars =>
        [phase = "clean" /\ phase' = "clean" => held' = held \ PrefixMinima(held)]_vars
  BY StepTakesPrefixMinima
<1> QED BY <1>1, Soundness, PTL DEF Spec, TakesPrefixMinima

=============================================================================
