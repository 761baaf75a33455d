------------------------------ MODULE IndexMap ------------------------------
(***************************************************************************)
(* The priority tree of index_map.h over a sequence of values: each node   *)
(* has a word of flags for the children that hold elements, a word of      *)
(* dirty bits for those with new elements below, and the least value below *)
(* it, augval.                                                             *)
(*                                                                         *)
(* It is used in turns.  Threads lower values and mark them with insert,   *)
(* without locks; then repair moves the dirty bits into the flags; then    *)
(* extract_min takes out every element up to a threshold and calls f on    *)
(* it, which may lower values and mark them while the extraction runs, as  *)
(* dijkstra does.  extract_prefix_min takes out the prefix minima instead. *)
(***************************************************************************)
EXTENDS Words

CONSTANTS
  Max,        \* the largest value, numeric_limits<T>::max()
  Threads

Priorities == Max \in Nat

ASSUME MapAssumption == Priorities

VARIABLES
  sequence,
  flag, dirty, augval,    \* the fields of the nodes, layer by layer
  phase,                  \* "user", "clean" after repair, "extract"
  threshold,              \* the argument of extract_min
  leaf,                   \* the tasks of extract_min in layer 0
  climber,                \* where each thread is in insert
  held, inserted,         \* history: elements at the last repair, and since then
  called, due             \* history: calls of f, and what had to be extracted

tree    == <<flag, dirty, augval>>
history == <<held, inserted, called, due>>
vars == <<sequence, tree, phase, threshold, leaf, climber, history>>

-----------------------------------------------------------------------------
Values == 0..Max
Nodes(k) == 0..(NumWords(k) - 1)
Word(k, w) == flag[k] \cap OfWord(w)
empty == Word(Top, 0) = {}

InUse(k) == 0..(Length(k) - 1)

(***************************************************************************)
(* The constructor with init_value: all flags in use, and the least values *)
(* computed layer by layer.                                                *)
(***************************************************************************)
AllBelow[k \in Levels] ==
  [w \in Nodes(k) |->
     First({Max} \cup {IF k = 0 THEN sequence[p] ELSE AllBelow[k - 1][p] :
                         p \in OfWord(w) \cap 0..(Length(k) - 1)})]

Idle == [index |-> 0, layer |-> Layers]

Init ==
  /\ sequence \in [Indices -> Values]
  /\ \E init_value \in BOOLEAN :
       /\ flag = [k \in Levels |-> IF init_value THEN InUse(k) ELSE {}]
       /\ augval = IF init_value THEN AllBelow ELSE [k \in Levels |-> [w \in Nodes(k) |-> Max]]
       /\ held = IF init_value THEN Indices ELSE {}
  /\ dirty = [k \in Levels |-> {}]
  /\ phase = "clean" /\ threshold = 0 /\ leaf = <<>>
  /\ climber = [t \in Threads |-> Idle]
  /\ inserted = {} /\ called = {} /\ due = {}

Resting == \A t \in Threads : climber[t] = Idle

-----------------------------------------------------------------------------
(* The user, or f, lowers a value and goes on to insert its index. *)
Lower(t, i, v) ==
  /\ phase = "extract" => called # {}
  /\ climber[t] = Idle /\ v < sequence[i]
  /\ sequence' = [sequence EXCEPT ![i] = v]
  /\ climber' = [climber EXCEPT ![t] = [index |-> i, layer |-> 0]]
  /\ phase' = IF phase = "clean" THEN "user" ELSE phase
  /\ UNCHANGED <<tree, threshold, leaf, history>>

(* Bug for the mutation runs: only an old bit ends the insertion. *)
StopsOnBit(k, i) == Pos(k, i) \in dirty[k]

(* The old word was not 0: whoever set its first bit goes on. *)
Stops(k, i) == dirty[k] \cap OfWord(Pos(k + 1, i)) # {}

(***************************************************************************)
(* One step of insert: fetch_or in layer 0 and fetch_add above, up to a    *)
(* word that had bits.                                                     *)
(***************************************************************************)
Insert(t) ==
  LET k == climber[t].layer
      i == climber[t].index
  IN  /\ k < Layers
      /\ dirty' = [dirty EXCEPT ![k] = IF k = 0 THEN @ \cup {i} ELSE AddBit(@, Pos(k, i))]
      /\ climber' = [climber EXCEPT ![t] =
                       IF Stops(k, i) \/ k = Top THEN Idle ELSE [@ EXCEPT !.layer = k + 1]]
      /\ inserted' = inserted \cup {i}
      /\ UNCHANGED <<sequence, flag, augval, phase, threshold, leaf, held, called, due>>

-----------------------------------------------------------------------------
(* The nodes of each layer that repair reaches along the dirty bits. *)
Reached[k \in Levels] ==
  IF k = Top THEN {0} ELSE {p \in dirty[k + 1] : word_id(p) \in Reached[k + 1]}

NewlyDirty(k) == {p \in dirty[k] : word_id(p) \in Reached[k]}

Old(k, w) == augval[k][w]

Repaired[k \in Levels] ==
  [w \in Nodes(k) |->
     IF w \notin Reached[k] THEN augval[k][w]
     ELSE First({Old(k, w)} \cup {IF k = 0 THEN sequence[p] ELSE Repaired[k - 1][p] :
                                    p \in dirty[k] \cap OfWord(w)})]

(* repair: the subtrees of a node in parallel, each by one task only. *)
repair ==
  /\ flag' = [k \in Levels |-> flag[k] \cup NewlyDirty(k)]
  /\ dirty' = [k \in Levels |-> dirty[k] \ NewlyDirty(k)]
  /\ augval' = Repaired

Repair ==
  /\ phase = "user" /\ Resting
  /\ phase' = "clean"
  /\ repair
  /\ held' = held \cup inserted /\ inserted' = {}
  /\ UNCHANGED <<sequence, threshold, leaf, climber, called, due>>

-----------------------------------------------------------------------------
(* The nodes of each layer that extract_min enters. *)
Selected(h) ==
  LET S[k \in Levels] ==
        IF k = Top THEN IF empty THEN {} ELSE {0}
        ELSE {p \in flag[k + 1] : word_id(p) \in S[k + 1] /\ augval[k][p] <= h}
  IN  S

ExtractMin(h) ==
  /\ phase = "clean"
  /\ phase' = "extract" /\ threshold' = h
  /\ leaf' = [w \in Selected(h)[0] |->
                [todo |-> Word(0, w), keeping |-> FALSE, kept |-> {}, aggregate |-> Max]]
  /\ called' = {} /\ due' = {i \in held : sequence[i] <= h}
  /\ UNCHANGED <<sequence, tree, climber, held, inserted>>

(* Bug: strictly below the threshold. *)
ExtractedBelow(i) == sequence[i] < threshold

Extracted(i) == sequence[i] <= threshold

(* A leaf task looks at its next element: f is called on it, or it stays. *)
LeafTest(w) ==
  LET i == First(leaf[w].todo)
  IN  /\ leaf[w].todo # {} /\ ~ leaf[w].keeping
      /\ IF Extracted(i)
           THEN /\ leaf' = [leaf EXCEPT ![w].todo = @ \ {i}]
                /\ called' = called \cup {i}
                /\ held' = held \ {i}
           ELSE /\ leaf' = [leaf EXCEPT ![w].keeping = TRUE]
                /\ UNCHANGED <<called, held>>
      /\ UNCHANGED <<sequence, tree, phase, threshold, climber, inserted, due>>

(* The value of an element that stays is read once more, and may have *)
(* been lowered since. *)
LeafKeep(w) ==
  LET i == First(leaf[w].todo)
  IN  /\ leaf[w].keeping
      /\ leaf' = [leaf EXCEPT ![w] =
           [todo |-> @.todo \ {i}, keeping |-> FALSE, kept |-> @.kept \cup {i},
            aggregate |-> First({@.aggregate, sequence[i]})]]
      /\ UNCHANGED <<sequence, tree, phase, threshold, climber, history>>

(* The flags that stay: of children not entered, or not emptied. *)
LeftOver(S, Left, k, w) ==
  {p \in Word(k, w) : p \in S[k - 1] => Left[k - 1][p] # {}}

(* The flags and least values of the nodes after their tasks have joined. *)
Leave(S, kept, aggregate) ==
  LET Left[k \in Levels] ==
        [w \in Nodes(k) |->
           IF w \notin S[k] THEN Word(k, w)
           ELSE IF k = 0 THEN kept[w] ELSE LeftOver(S, Left, k, w)]
      Least[k \in Levels] ==
        [w \in Nodes(k) |->
           IF w \notin S[k] THEN augval[k][w]
           ELSE IF k = 0 THEN aggregate[w]
           ELSE First({Max} \cup {Least[k - 1][p] : p \in Word(k, w)})]
  IN  /\ flag' = [k \in Levels |-> UNION {Left[k][w] : w \in Nodes(k)}]
      /\ augval' = Least

Joined == phase = "extract" /\ Resting /\ \A w \in DOMAIN leaf : leaf[w].todo = {}

Finish ==
  /\ Joined
  /\ phase' = "user"
  /\ Leave(Selected(threshold), [w \in DOMAIN leaf |-> leaf[w].kept],
           [w \in DOMAIN leaf |-> leaf[w].aggregate])
  /\ threshold' = 0 /\ leaf' = <<>> /\ called' = {} /\ due' = {}
  /\ UNCHANGED <<sequence, dirty, climber, held, inserted>>

-----------------------------------------------------------------------------
(* Bug: the elements of the same word do not count. *)
PrefixOfWord(k, p, prefix_min) == prefix_min

(* prefix_min when extract_prefix_min comes to bit p of its word. *)
Prefix(k, p, prefix_min) ==
  First({prefix_min} \cup {IF k = 0 THEN sequence[q] ELSE augval[k - 1][q] :
                             q \in {x \in Word(k, word_id(p)) : x < p}})

(* The nodes it enters, each with the prefix_min it gets. *)
PrefixSelected[k \in Levels] ==
  IF k = Top THEN [w \in IF empty THEN {} ELSE {0} |-> Max]
  ELSE LET before == [p \in {q \in flag[k + 1] : word_id(q) \in DOMAIN PrefixSelected[k + 1]} |->
                        Prefix(k + 1, p, PrefixSelected[k + 1][word_id(p)])]
       IN  [p \in {q \in DOMAIN before : augval[k][q] <= before[q]} |-> before[p]]

ExtractPrefixMin ==
  LET S == [k \in Levels |-> DOMAIN PrefixSelected[k]]
      kept == [w \in S[0] |->
                 {i \in Word(0, w) : sequence[i] > Prefix(0, i, PrefixSelected[0][w])}]
  IN  /\ phase = "clean"
      /\ Leave(S, kept, [w \in S[0] |-> First({Max} \cup {sequence[i] : i \in kept[w]})])
      /\ held' = flag'[0]
      /\ UNCHANGED <<sequence, dirty, phase, threshold, leaf, climber, inserted, called, due>>

-----------------------------------------------------------------------------
Next ==
  \/ \E t \in Threads :
       \/ Insert(t)
       \/ \E i \in Indices, v \in Values : Lower(t, i, v)
  \/ Repair
  \/ \E h \in Values : ExtractMin(h)
  \/ \E w \in DOMAIN leaf : LeafTest(w) \/ LeafKeep(w)
  \/ Finish
  \/ ExtractPrefixMin

Spec == Init /\ [][Next]_vars

-----------------------------------------------------------------------------
TypeOK ==
  /\ sequence \in [Indices -> Values]
  /\ flag \in [Levels -> SUBSET Indices] /\ dirty \in [Levels -> SUBSET Indices]
  /\ \A k \in Levels : flag[k] \cup dirty[k] \subseteq 0..(Length(k) - 1)
  /\ \A k \in Levels : augval[k] \in [Nodes(k) -> Values]
  /\ phase \in {"user", "clean", "extract"}
  /\ threshold \in Values
  /\ DOMAIN leaf \subseteq Nodes(0)
  /\ \A w \in DOMAIN leaf :
       leaf[w] \in [todo : SUBSET Indices, keeping : BOOLEAN, kept : SUBSET Indices,
                    aggregate : Values]
  /\ climber \in [Threads -> [index : Indices, layer : 0..Layers]]
  /\ held \subseteq Indices /\ inserted \subseteq Indices
  /\ called \subseteq Indices /\ due \subseteq Indices

(***************************************************************************)
(* After a repair the tree is exact: its elements are those of the last    *)
(* repair that were not extracted and those inserted since, each summary   *)
(* flag tells whether there are elements below, and each augval is the     *)
(* least value below, although extraction left the nodes with stale values *)
(* while insertions raced with it.                                         *)
(***************************************************************************)
Below(k, w) == {i \in held : Pos(k + 1, i) = w}

TreeIsExact ==
  phase = "clean" =>
    /\ flag[0] = held
    /\ \A k \in Levels :
         /\ dirty[k] = {}
         /\ k > 0 => flag[k] = {word_id(p) : p \in flag[k - 1]}
         /\ \A w \in Nodes(k) :
              augval[k][w] = First({Max} \cup {sequence[i] : i \in Below(k, w)})

(***************************************************************************)
(* Among racing insertions a word with dirty bits has its bit in the layer *)
(* above or exactly one thread about to set it, so that repair reaches     *)
(* every dirty bit and fetch_add never carries.                            *)
(***************************************************************************)
DirtyIsOwed ==
  \A k \in 1..Top : \A p \in 0..(Length(k) - 1) :
    LET owing == {t \in Threads : climber[t].layer = k /\ Pos(k, climber[t].index) = p}
        some  == dirty[k - 1] \cap OfWord(p) # {}
    IN  /\ p \in dirty[k] => some
        /\ Cardinality(owing) = IF some /\ p \notin dirty[k] THEN 1 ELSE 0

MapInvariant ==
  /\ TypeOK
  /\ TreeIsExact
  /\ DirtyIsOwed

(***************************************************************************)
(* An extraction calls f on every element that was at most the threshold   *)
(* when it began; what it leaves behind is above the threshold, or was     *)
(* lowered by f and is marked for the next repair.                         *)
(***************************************************************************)
ExtractsTheMinima ==
  Joined =>
    /\ due \subseteq called
    /\ \A i \in held : i \in inserted \/ sequence[i] > threshold

(***************************************************************************)
(* extract_prefix_min takes out the elements that no element before them   *)
(* is smaller than, and no others.                                         *)
(***************************************************************************)
PrefixMinima(S) == {i \in S : \A j \in S : j < i => sequence[i] <= sequence[j]}

TakesPrefixMinima ==
  [][phase = "clean" /\ phase' = "clean" => held' = held \ PrefixMinima(held)]_vars

=============================================================================
