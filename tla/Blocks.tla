------------------------------- MODULE Blocks -------------------------------
(***************************************************************************)
(* What the primitives have in common: parallel passes over blocks, with   *)
(* short sequential steps between them that turn counts into positions.    *)
(*                                                                         *)
(* A parallel_for is a pass, and each of its tasks is one step: within a   *)
(* pass the tasks write to places of their own and read what earlier       *)
(* passes have written.  That no two of them get the same place is what    *)
(* the arithmetic on blocks has to achieve; the results show it.           *)
(***************************************************************************)
EXTENDS Integers, Sequences, FiniteSets

VARIABLES
  pass,    \* the pass in progress, or "done"
  todo     \* its tasks that have not run

Task(p, b) == pass = p /\ b \in todo /\ todo' = todo \ {b} /\ UNCHANGED pass

Turn(p, next, tasks) == pass = p /\ todo = {} /\ pass' = next /\ todo' = tasks

Least(a, b) == IF a <= b THEN a ELSE b
CeilDiv(a, b) == (a + b - 1) \div b

Ascending(S) == [j \in 1..Cardinality(S) |-> CHOOSE p \in S : Cardinality({q \in S : q < p}) = j - 1]

(* Array A with the values of s from index p on.  A write beyond the end of *)
(* the array is kept as an element it should not have.                      *)
Store(A, p, s) ==
  LET places == p..(p + Len(s) - 1)
  IN  [q \in DOMAIN A \cup places |-> IF q \in places THEN s[q - p + 1] ELSE A[q]]

(***************************************************************************)
(* The loop of all prefix sums: element i becomes the combination of the   *)
(* elements before it, element m that of all. Combine maps pairs of values.*)
(***************************************************************************)
PrefixSums(Combine, Identity, A, m) ==
  LET total[i \in 0..m] == IF i = 0 THEN Identity ELSE Combine[total[i - 1], A[i - 1]]
  IN  total

(* reduce: halves down to the granularity, combined from the left. *)
reduce(Combine, Identity, f, start, end, granularity) ==
  LET part[s, e \in start..end] ==
        IF e - s <= granularity
        THEN PrefixSums(Combine, Identity, [i \in 0..(e - s - 1) |-> f[s + i]], e - s)[e - s]
        ELSE LET mid == s + ((e - s) \div 2) IN Combine[part[s, mid], part[mid, e]]
  IN  part[start, end]

(***************************************************************************)
(* histogram: from the counts of each block and bucket, the first position *)
(* of each bucket and, where the counts were, that of each block in it.    *)
(***************************************************************************)
Plus == [a, b \in Int |-> a + b]

(* Bug for the mutation runs: each block begins where it ends. *)
PlaceAfter(column, block) == column[block + 1]

PlaceOf(column, block) == column[block]

histogram(num_buckets, num_blocks, counts) ==
  LET column(b) ==
        PrefixSums(Plus, 0, [block \in 0..(num_blocks - 1) |-> counts[block, b]], num_blocks)
      bucket_offsets ==
        PrefixSums(Plus, 0, [b \in 0..(num_buckets - 1) |-> column(b)[num_blocks]], num_buckets)
  IN  [bucket_offsets |-> bucket_offsets,
       counts |-> [c \in DOMAIN counts |-> bucket_offsets[c[2]] + PlaceOf(column(c[2]), c[1])]]

=============================================================================
