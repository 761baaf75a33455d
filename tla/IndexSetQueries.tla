--------------------------- MODULE IndexSetQueries ---------------------------
(***************************************************************************)
(* What IndexSet computes from its layers without changing them: reduce,   *)
(* num_elements and sample.  They walk down the summary bits like the      *)
(* traversals, but combine results upwards or follow a single bit.         *)
(***************************************************************************)
EXTENDS IndexSet, Sequences

LOCAL INSTANCE SequencesExt

(* pop_offset(i, word): the 1 bit with i 1 bits below it. *)
pop_offset(i, W) == CHOOSE p \in W : Cardinality({q \in W : q < p}) = i

(* Bug for the mutation runs: the number of 1 bits above it is counted. *)
AscendingFromTop(W) ==
  [j \in 1..Cardinality(W) |-> pop_offset(Cardinality(W) - j, W)]

Ascending(W) == [j \in 1..Cardinality(W) |-> pop_offset(j - 1, W)]

Ones(k, w) == Ascending(Word(k, w))

(***************************************************************************)
(* reduce with an associative Combine: here f(i) is <<i>> and Combine is   *)
(* concatenation, which tells apart any two orders of combination.         *)
(***************************************************************************)
Combine(parts) == FoldLeft(\o, <<>>, parts)

ReduceWord[k \in Levels, w \in Indices] ==
  Combine([j \in 1..Len(Ones(k, w)) |->
             IF k = 0 THEN <<Ones(k, w)[j]>> ELSE ReduceWord[k - 1, Ones(k, w)[j]]])

reduce == IF empty THEN <<>> ELSE ReduceWord[Top, 0]

(* num_elements: pop counts of the leaf words, added up layer by layer. *)
CountWord[k \in Levels, w \in Indices] ==
  IF k = 0 THEN Cardinality(Word(0, w))
  ELSE FoldLeft(+, 0, [j \in 1..Len(Ones(k, w)) |-> CountWord[k - 1, Ones(k, w)[j]]])

num_elements == IF empty THEN 0 ELSE CountWord[Top, 0]

(***************************************************************************)
(* sample: one 1 bit of each word on the way down, whatever the dice says. *)
(* A word without bits would make it divide by zero.                       *)
(***************************************************************************)
DividesByZero == -1

SampleWord[k \in Levels, w \in Indices] ==
  IF Word(k, w) = {} THEN {DividesByZero}
  ELSE IF k = 0 THEN Word(0, w)
  ELSE UNION {SampleWord[k - 1, p] : p \in Word(k, w)}

(* The values sample may return; UINT64_MAX for an empty set is n. *)
sample == IF empty THEN {n} ELSE SampleWord[Top, 0]

-----------------------------------------------------------------------------
(***************************************************************************)
(* reduce combines f over the elements, each once and in increasing order, *)
(* so that Combine need not be commutative; num_elements counts them.      *)
(***************************************************************************)
ReducesInOrder ==
  /\ ToSet(reduce) = Elements /\ Len(reduce) = Cardinality(Elements)
  /\ \A j \in 2..Len(reduce) : reduce[j - 1] < reduce[j]
  /\ num_elements = Len(reduce)

(***************************************************************************)
(* sample can return every element and nothing else, and never meets a     *)
(* word without bits, after any operations.                                *)
(***************************************************************************)
SamplesElements == sample = IF Elements = {} THEN {n} ELSE Elements

(* Between two phases, reduce, num_elements and sample agree with the set.  *)
QueriesAreExact == phase = "quiet" => ReducesInOrder /\ SamplesElements

=============================================================================
