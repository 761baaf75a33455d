-------------------------- MODULE RandomPermutation --------------------------
(***************************************************************************)
(* random_permutation of random.h.  The numbers 0 .. n-1 are counted and   *)
(* scattered into buckets by their hashes, and every bucket is shuffled.   *)
(* A hash64 is any function; so is the choice of each swap.                *)
(***************************************************************************)
EXTENDS Blocks, SequencesExt

CONSTANTS
  Sizes,          \* values of n
  Sequential,     \* below this size one bucket is all, 8192 in the code
  ManyBuckets,    \* a power of 2 from n in the code
  num_blocks      \* num_workers() * 2 in the code

VARIABLES
  n,
  hash,      \* of each number, modulo the number of buckets
  counts, bucket_offsets, output

num_buckets == IF n < Sequential THEN 1 ELSE ManyBuckets

(* Bug for the mutation runs: rounded down, the blocks do not reach n. *)
block_sizeFloor == n \div num_blocks

block_size == CeilDiv(n, num_blocks)

(* The numbers of a block; a block that would begin behind n has none. *)
NumbersOf(block) == (block * block_size)..(Least((block + 1) * block_size, n) - 1)

Unwritten == -1

Init ==
  /\ n \in Sizes
  /\ hash \in [0..(n - 1) -> 0..(num_buckets - 1)]
  /\ counts = [c \in (0..(num_blocks - 1)) \X (0..(num_buckets - 1)) |-> 0]
  /\ IF n < Sequential
       THEN /\ bucket_offsets = [b \in 0..1 |-> b * n]
            /\ output = [i \in 0..(n - 1) |-> i]
            /\ pass = "shuffle" /\ todo = {0}
       ELSE /\ bucket_offsets = <<>>
            /\ output = [i \in 0..(n - 1) |-> Unwritten]
            /\ pass = "count" /\ todo = 0..(num_blocks - 1)

Count(block) ==
  /\ Task("count", block)
  /\ counts' = [c \in DOMAIN counts |->
       counts[c] + IF c[1] = block
                   THEN Cardinality({i \in NumbersOf(block) : hash[i] = c[2]})
                   ELSE 0]
  /\ UNCHANGED <<n, hash, bucket_offsets, output>>

Histogram ==
  LET h == histogram(num_buckets, num_blocks, counts)
  IN  /\ Turn("count", "scatter", 0..(num_blocks - 1))
      /\ counts' = h.counts /\ bucket_offsets' = h.bucket_offsets
      /\ UNCHANGED <<n, hash, output>>

(* The numbers of a block in their order, each to the next place. *)
Scatter(block) ==
  LET same(i)  == {j \in NumbersOf(block) : hash[j] = hash[i]}
      place(i) == counts[block, hash[i]] + Cardinality({j \in same(i) : j < i})
      at(p)    == {i \in NumbersOf(block) : place(i) = p}
  IN  /\ Task("scatter", block)
      /\ output' = [p \in DOMAIN output \cup {place(i) : i \in NumbersOf(block)} |->
                      IF at(p) = {} THEN output[p] ELSE CHOOSE i \in at(p) : TRUE]
      /\ counts' = [c \in DOMAIN counts |->
           counts[c] + IF c[1] = block
                       THEN Cardinality({i \in NumbersOf(block) : hash[i] = c[2]}) ELSE 0]
      /\ UNCHANGED <<n, hash, bucket_offsets>>

ShuffleBuckets ==
  /\ Turn("scatter", "shuffle", 0..(num_buckets - 1))
  /\ UNCHANGED <<n, hash, counts, bucket_offsets, output>>

(* seq_random_shuffle: from the last place down, a swap with one not above. *)
Swapped(A, i, j) == [A EXCEPT ![i] = A[j], ![j] = A[i]]

Shuffle(b) ==
  LET first  == bucket_offsets[b]
      length == bucket_offsets[b + 1] - first
  IN  /\ Task("shuffle", b)
      /\ \E choice \in [1..(length - 1) -> 0..(length - 1)] :
           /\ \A i \in DOMAIN choice : choice[i] <= i
           /\ output' = IF length < 2 THEN output
                        ELSE FoldLeft(LAMBDA A, i : Swapped(A, first + i, first + choice[i]), output,
                                      [i \in 1..(length - 1) |-> length - i])
      /\ UNCHANGED <<n, hash, counts, bucket_offsets>>

Return == Turn("shuffle", "done", {}) /\ UNCHANGED <<n, hash, counts, bucket_offsets, output>>

Next ==
  \/ Histogram \/ ShuffleBuckets \/ Return
  \/ \E b \in todo : Count(b) \/ Scatter(b) \/ Shuffle(b)

-----------------------------------------------------------------------------
(* random_permutation returns each number below n once, whatever the        *)
(* hashes, also if the last blocks are empty or all numbers meet in one     *)
(* bucket.                                                                  *)
Permutes ==
  pass = "done" => DOMAIN output = 0..(n - 1) /\ {output[i] : i \in DOMAIN output} = 0..(n - 1)

=============================================================================
