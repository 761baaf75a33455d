------------------------------ MODULE IndexSet ------------------------------
(***************************************************************************)
(* The toggle tree of index_set.h: a set of indices 0 .. n-1 as layers of  *)
(* words, where a bit of layer k + 1 tells whether a word of layer k has   *)
(* bits.  Threads insert and remove concurrently without locks, and        *)
(* for_each, consume_each, for_range and consume_range walk down the       *)
(* summaries, one task per word.                                           *)
(*                                                                         *)
(* The operations come in phases, as the callers in                        *)
(* include/toggle/algorithms use them: insertions only, removals only, or  *)
(* one traversal, which in k_core.h removes some of what it visits.        *)
(***************************************************************************)
EXTENDS Words

CONSTANTS
  Threads,
  Phases     \* the kinds of operations the caller uses

VARIABLES
  bits,       \* the 1 bits of each layer
  phase,      \* the kind of operations in progress
  climber,    \* where each thread is in insert or remove
  tasks,      \* words a traversal has still to visit
  leaves,     \* indices a traversal has read and not yet called f on
  range,      \* the arguments l and r of for_range and consume_range
  base,       \* history: the elements when the traversal began
  visited     \* history: how often the traversal called f(i)

vars == <<bits, phase, climber, tasks, leaves, range, base, visited>>
walk == <<tasks, leaves, range, base, visited>>

-----------------------------------------------------------------------------
Word(k, w) == bits[k] \cap OfWord(w)

empty == Word(Top, 0) = {}
Elements == bits[0]

(* fetch_sub of one bit of a word: a borrow runs to the next 1 bit. *)
SubBit(S, p) ==
  LET ones == Upwards(p) \cap S
  IN  IF ones = {} THEN S \cup Upwards(p)
      ELSE (S \ {First(ones)}) \cup (p..(First(ones) - 1))

Filled(k) ==
  {p \in 0..(NumWords(k) * B - 1) :
     \/ word_id(p) < NumWords(k) - 1
     \/ Length(k) % B = 0
     \/ p % B < Length(k) % B}

NoCount == [i \in Indices |-> 0]
Idle    == [index |-> 0, layer |-> 0]   \* layer 0: between two operations

Init ==
  /\ \E init_value \in BOOLEAN :
       bits = [k \in Levels |-> IF init_value THEN Filled(k) ELSE {}]
  /\ phase = "quiet"
  /\ climber = [t \in Threads |-> Idle]
  /\ tasks = {} /\ leaves = {}
  /\ range = <<0, n>>
  /\ base = {} /\ visited = NoCount

(***************************************************************************)
(* The kinds of phases.  In for_each_remove the caller's f removes some of *)
(* the indices it is called on, as in k_core.h.                            *)
(***************************************************************************)
Traversals == {"for_each", "consume_each", "for_range", "consume_range",
               "for_each_remove"}
Ranged     == {"for_range", "consume_range"}
LeafByLeaf == {"consume_range", "for_each_remove"}
Removing   == {"remove"} \cup LeafByLeaf

Resting == \A t \in Threads : climber[t] = Idle

-----------------------------------------------------------------------------
(* The user's fork and join around a batch of insertions or removals. *)
Begin(p) ==
  /\ phase = "quiet"
  /\ phase' = p
  /\ UNCHANGED <<bits, climber, walk>>

End ==
  /\ phase # "quiet"
  /\ Resting /\ tasks = {} /\ leaves = {}
  /\ phase' = "quiet"
  /\ base' = {} /\ visited' = NoCount
  /\ range' = <<0, n>>
  /\ UNCHANGED <<bits, climber, tasks, leaves>>

(* Thread t goes on with layer k of its operation on i, or has returned. *)
Climb(t, i, k) ==
  climber' = [climber EXCEPT ![t] =
                IF k = Layers THEN Idle ELSE [index |-> i, layer |-> k]]

(* Bug for the mutation runs: only an old bit returns. *)
InsertLeafAnyway(t, i) ==
  /\ phase = "insert" /\ climber[t] = Idle
  /\ bits' = [bits EXCEPT ![0] = @ \cup {i}]
  /\ IF i \in bits[0] THEN UNCHANGED climber ELSE Climb(t, i, 1)
  /\ UNCHANGED <<phase, walk>>

(* insert: fetch_or of the bit of i; an old word that is not 0 returns. *)
InsertLeaf(t, i) ==
  /\ phase = "insert" /\ climber[t] = Idle
  /\ bits' = [bits EXCEPT ![0] = @ \cup {i}]
  /\ IF Word(0, word_id(i)) # {} THEN UNCHANGED climber ELSE Climb(t, i, 1)
  /\ UNCHANGED <<phase, walk>>

(* insert: fetch_add in a summary layer; the first bit of a word goes on. *)
InsertUp(t) ==
  /\ phase = "insert" /\ climber[t] # Idle
  /\ LET k == climber[t].layer
         i == climber[t].index
     IN  /\ bits' = [bits EXCEPT ![k] = AddBit(@, Pos(k, i))]
         /\ Climb(t, i, IF Word(k, Pos(k + 1, i)) # {} THEN Layers ELSE k + 1)
  /\ UNCHANGED <<phase, walk>>

(* Bug: a word with more bits goes on, too. *)
RemoveUpAlways(t) ==
  /\ phase \in Removing /\ climber[t] # Idle
  /\ LET k == climber[t].layer
         i == climber[t].index
     IN  /\ bits' = [bits EXCEPT ![k] = SubBit(@, Pos(k, i))]
         /\ Climb(t, i, k + 1)
  /\ UNCHANGED <<phase, walk>>

(***************************************************************************)
(* remove: fetch_and with the complement; only the last bit of a word goes *)
(* on to the summaries.                                                    *)
(***************************************************************************)
RemoveFrom(t, i) ==
  /\ bits' = [bits EXCEPT ![0] = @ \ {i}]
  /\ IF Word(0, word_id(i)) # {i} THEN UNCHANGED climber ELSE Climb(t, i, 1)

RemoveLeaf(t, i) ==
  /\ phase = "remove" /\ climber[t] = Idle
  /\ RemoveFrom(t, i)
  /\ UNCHANGED <<phase, walk>>

(* remove: fetch_sub in a summary layer. *)
RemoveUp(t) ==
  /\ phase \in Removing /\ climber[t] # Idle
  /\ LET k == climber[t].layer
         i == climber[t].index
     IN  /\ bits' = [bits EXCEPT ![k] = SubBit(@, Pos(k, i))]
         /\ Climb(t, i, IF Word(k, Pos(k + 1, i)) # {Pos(k, i)} THEN Layers ELSE k + 1)
  /\ UNCHANGED <<phase, walk>>

-----------------------------------------------------------------------------

(* Start at the top word, unless the set or the range is empty. *)
BeginTraversal(p) ==
  /\ phase = "quiet"
  /\ phase' = p
  /\ base' = Elements
  /\ \E l, r \in 0..n :
       /\ p \notin Ranged => l = 0 /\ r = n
       /\ range' = <<l, r>>
       /\ tasks' = IF empty \/ l >= r THEN {} ELSE {<<Top, 0>>}
  /\ UNCHANGED <<bits, climber, leaves, visited>>

(***************************************************************************)
(* The mask of for_range for the word whose first index is i: two shifts   *)
(* drop the bits whose indices all lie before l or from r on.              *)
(***************************************************************************)
Low(k, i, l) == IF l > i THEN (l - i) \div B ^ k ELSE 0
High(k, i, r) ==
  LET end == i + B ^ (k + 1) IN IF r < end THEN (end - r) \div B ^ k ELSE 0

(* Bug: a word that only begins in the range is dropped. *)
MaskShort(k, i, l, r) ==
  {p \in OfWord(Pos(k + 1, i)) :
     p % B >= Low(k, i, l) /\ p % B < B - 1 - High(k, i, r)}

Mask(k, i, l, r) ==
  {p \in OfWord(Pos(k + 1, i)) :
     p % B >= Low(k, i, l) /\ p % B < B - High(k, i, r)}

(* The part of a word a traversal looks at. *)
Seen(k, w) ==
  Word(k, w) \cap
    (IF phase \in Ranged THEN Mask(k, w * B ^ (k + 1), range[1], range[2]) ELSE OfWord(w))

(* Bug: what is consumed is not cleared. *)
VisitKeeping(task) ==
  LET k == task[1]
      w == task[2]
  IN  /\ phase \in Traversals /\ task \in tasks
      /\ tasks' = (tasks \ {task}) \cup
                    (IF k = 0 THEN {} ELSE {<<k - 1, p>> : p \in Seen(k, w)})
      /\ visited' = [i \in Indices |->
           visited[i] + (IF k = 0 /\ i \in Seen(k, w) THEN 1 ELSE 0)]
      /\ UNCHANGED <<bits, phase, climber, leaves, range, base>>

(***************************************************************************)
(* A task reads its word, consume_each clears it, and the bits read become *)
(* the tasks of the layer below or, in layer 0, the calls of f.            *)
(***************************************************************************)
Visit(task) ==
  LET k == task[1]
      w == task[2]
  IN  /\ phase \in Traversals /\ task \in tasks
      /\ tasks' = (tasks \ {task}) \cup
                    (IF k = 0 THEN {} ELSE {<<k - 1, p>> : p \in Seen(k, w)})
      /\ bits' = IF phase = "consume_each" THEN [bits EXCEPT ![k] = @ \ OfWord(w)] ELSE bits
      /\ IF k = 0 /\ phase \in LeafByLeaf
           THEN leaves' = leaves \cup Seen(k, w) /\ UNCHANGED visited
           ELSE /\ visited' = [i \in Indices |->
                     visited[i] + (IF k = 0 /\ i \in Seen(k, w) THEN 1 ELSE 0)]
                /\ UNCHANGED leaves
      /\ UNCHANGED <<phase, climber, range, base>>

(* consume_range: f(leaf), then remove(leaf).  In for_each f may remove it. *)
CallLeaf(t, i) ==
  /\ phase \in LeafByLeaf /\ climber[t] = Idle
  /\ i \in leaves
  /\ leaves' = leaves \ {i}
  /\ visited' = [visited EXCEPT ![i] = @ + 1]
  /\ \/ RemoveFrom(t, i)
     \/ phase = "for_each_remove" /\ UNCHANGED <<bits, climber>>
  /\ UNCHANGED <<phase, tasks, range, base>>

-----------------------------------------------------------------------------
Next ==
  \/ \E p \in Phases \cap {"insert", "remove"} : Begin(p)
  \/ \E p \in Phases \cap Traversals : BeginTraversal(p)
  \/ End
  \/ \E t \in Threads :
       \/ InsertUp(t)
       \/ RemoveUp(t)
       \/ \E i \in Indices : InsertLeaf(t, i) \/ RemoveLeaf(t, i) \/ CallLeaf(t, i)
  \/ \E task \in tasks : Visit(task)

Spec == Init /\ [][Next]_vars

-----------------------------------------------------------------------------
TypeOK ==
  /\ bits \in [Levels -> SUBSET Indices]
  /\ \A k \in Levels : bits[k] \subseteq 0..(Length(k) - 1)
  /\ phase \in Traversals \cup {"quiet", "insert", "remove"}
  /\ climber \in [Threads -> [index : Indices, layer : Levels]]
  /\ tasks \subseteq Levels \X Indices
  /\ leaves \subseteq Indices
  /\ range \in (0..n) \X (0..n)
  /\ base \subseteq Indices
  /\ visited \in [Indices -> Nat]

(***************************************************************************)
(* Between two phases every summary bit is exact, whatever operations      *)
(* raced in the phase before: a bit is set if and only if its word has     *)
(* bits.  empty, the traversals, reduce and sample all rely on it.         *)
(***************************************************************************)
HasBits(k, p) == Word(k, p) # {}

SummariesAreExact ==
  phase = "quiet" =>
    \A k \in 1..Top : bits[k] = {word_id(p) : p \in bits[k - 1]}

(***************************************************************************)
(* While insertions race, a word with bits has its summary bit set or      *)
(* exactly one thread about to set it; while removals race, an empty word  *)
(* has its summary bit clear or exactly one thread about to clear it.  So  *)
(* fetch_add and fetch_sub never carry into the bits of other words.       *)
(***************************************************************************)
Owing(k, p) == {t \in Threads : climber[t].layer = k /\ Pos(k, climber[t].index) = p}

SummariesAreOwed ==
  \A k \in 1..Top : \A p \in 0..(Length(k) - 1) :
    LET due == HasBits(k - 1, p)
        set == p \in bits[k]
    IN  /\ phase = "insert" =>
             (set => due) /\ Cardinality(Owing(k, p)) = IF due /\ ~ set THEN 1 ELSE 0
        /\ phase \in Removing =>
             (due => set) /\ Cardinality(Owing(k, p)) = IF set /\ ~ due THEN 1 ELSE 0

(***************************************************************************)
(* The shifts that make the mask of for_range are by less than the width   *)
(* of a word, for every word the walk reaches: by more they are undefined. *)
(***************************************************************************)
ShiftsAreDefined ==
  phase \in Ranged =>
    \A task \in tasks :
      LET k == task[1]
          i == task[2] * B ^ (k + 1)
      IN  Low(k, i, range[1]) < B /\ High(k, i, range[2]) < B

(***************************************************************************)
(* Why that is so.  A thread is on its way up only in a phase of its kind, *)
(* and only a traversal keeps words and leaves to visit.                   *)
(***************************************************************************)
PhasesAreApart ==
  /\ \A t \in Threads : climber[t] # Idle =>
       climber[t].layer # 0 /\ phase \in {"insert"} \cup Removing
  /\ phase \notin Traversals => tasks = {} /\ base = {} /\ visited = NoCount
  /\ phase \notin LeafByLeaf => leaves = {}
  /\ phase \notin Ranged => range = <<0, n>>

(* What only reads leaves the summaries exact; consume_each owes those it   *)
(* has cleared to the tasks that are still to run.                          *)
SummariesAreKept ==
  \A k \in 1..Top : \A p \in 0..(Length(k) - 1) :
    /\ phase \in {"for_each", "for_range"} => (p \in bits[k] <=> HasBits(k - 1, p))
    /\ phase = "consume_each" =>
         /\ p \in bits[k] => HasBits(k - 1, p)
         /\ <<k - 1, p>> \in tasks <=> HasBits(k - 1, p) /\ p \notin bits[k]

(* Every word a task is to visit has indices in the range. *)
TasksMeetRange ==
  phase \in Ranged =>
    \A task \in tasks :
      LET i == task[2] * B ^ (task[1] + 1)
      IN  range[1] < i + B ^ (task[1] + 1) /\ i < range[2]

(***************************************************************************)
(* Each index is below one task at most, has not been visited then, and is *)
(* visited only if it is asked for.                                        *)
(***************************************************************************)
InRange == {i \in base : range[1] <= i /\ i < range[2]}

Over(i) == {k \in Levels : <<k, Pos(k + 1, i)>> \in tasks}

TasksAreApart ==
  \A i \in Indices :
    /\ \A k, j \in Over(i) : k = j
    /\ Over(i) # {} \/ i \in leaves => visited[i] = 0
    /\ Over(i) # {} => i \notin leaves
    /\ visited[i] # 0 \/ i \in leaves => i \in InRange
    /\ visited[i] \in {0, 1}
    /\ phase \in Traversals /\ i \in bits[0] => i \in base

(* Who is asked for and not yet visited is still an element, and is found *)
(* by the task above it: the bits on the way are set.                     *)
NobodyIsForgotten ==
  \A i \in InRange :
    /\ visited[i] = 0 => i \in bits[0] /\ (i \in leaves \/ Over(i) # {})
    /\ \A j \in Over(i) : \A k \in 0..j : Pos(k, i) \in bits[k]

SetInvariant ==
  /\ TypeOK
  /\ SummariesAreExact
  /\ SummariesAreOwed
  /\ ShiftsAreDefined
  /\ PhasesAreApart
  /\ SummariesAreKept
  /\ TasksMeetRange
  /\ TasksAreApart
  /\ NobodyIsForgotten

(***************************************************************************)
(* The tree is a set: inserted and removed indices are elements at once,   *)
(* a traversal calls f once for each element in its range and for no other *)
(* index, takes out what it consumes and leaves the rest, also when what f *)
(* removes empties words and summaries above the tasks that have still to  *)
(* run.                                                                    *)
(***************************************************************************)
Promise == INSTANCE AbstractSet WITH elements <- bits[0], asked <- InRange, handed <- visited

ImplementsSet == Promise!Spec

=============================================================================
