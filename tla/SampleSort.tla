----------------------------- MODULE SampleSort -----------------------------
(***************************************************************************)
(* sample_sort of sort.h.  Blocks are sorted and counted by bucket, copied *)
(* to their buckets, and the buckets are sorted.  A value that is equal to *)
(* a splitter goes one bucket further, so that a bucket between two equal  *)
(* splitters holds equal values only and is left as it is.                 *)
(*                                                                         *)
(* Values are pairs of a key, which comp compares, and a number that tells *)
(* values of one key apart.  std::sort is external; of the orders it may   *)
(* give to equal keys it is the one by number here.                        *)
(***************************************************************************)
EXTENDS Blocks, TLC

CONSTANTS
  Inputs,       \* sequences of keys, of Sequential or more elements
  num_buckets   \* from the number of workers and n in the code

VARIABLES
  array,           \* start .. end
  splitters, buffer, counts, bucket_offsets

n == Cardinality(DOMAIN array)
block_size == CeilDiv(n, num_buckets)
num_blocks == CeilDiv(n, block_size)
BlockStart(block) == block * block_size
BlockEnd(block) == Least(n, BlockStart(block) + block_size)
Buckets == 0..(num_buckets - 1)

comp(v, w) == v[1] < w[1]

(* std::sort on array[lo] .. array[hi - 1]. *)
Sorted(lo, hi) ==
  SortSeq([j \in 1..(hi - lo) |-> array[lo + j - 1]],
          LAMBDA v, w : comp(v, w) \/ (v[1] = w[1] /\ v[2] < w[2]))

(***************************************************************************)
(* The samples are taken where hash64 says, so that the splitters can be   *)
(* any values of the input, in order, as often as it happens.              *)
(***************************************************************************)
Init ==
  \E input \in Inputs :
    /\ array = [i \in 0..(Len(input) - 1) |-> <<input[i + 1], i>>]
    /\ splitters \in [0..(num_buckets - 2) -> {<<input[i], 0>> : i \in DOMAIN input}]
    /\ \A i \in 1..(num_buckets - 2) : ~ comp(splitters[i], splitters[i - 1])
    /\ buffer = [i \in 0..(Len(input) - 1) |-> <<>>]
    /\ LET m == CeilDiv(Len(input), CeilDiv(Len(input), num_buckets))
       IN  /\ counts = [c \in (0..(m - 1)) \X Buckets |-> 0]
           /\ pass = "count" /\ todo = 0..(m - 1)
    /\ bucket_offsets = <<>>

BucketOf(v) ==
  LET below == Cardinality({i \in DOMAIN splitters : comp(splitters[i], v)})
  IN  IF below \in DOMAIN splitters /\ ~ comp(v, splitters[below]) THEN below + 1 ELSE below

Count(block) ==
  LET sorted == Sorted(BlockStart(block), BlockEnd(block))
  IN  /\ Task("count", block)
      /\ array' = Store(array, BlockStart(block), sorted)
      /\ buffer' = Store(buffer, BlockStart(block), sorted)
      /\ counts' = [c \in DOMAIN counts |->
           counts[c] + IF c[1] = block
                       THEN Cardinality({j \in DOMAIN sorted : BucketOf(sorted[j]) = c[2]}) ELSE 0]
      /\ UNCHANGED <<splitters, bucket_offsets>>

Histogram ==
  LET h == histogram(num_buckets, num_blocks, counts)
  IN  /\ Turn("count", "copy", 0..(num_blocks - 1))
      /\ counts' = h.counts /\ bucket_offsets' = h.bucket_offsets
      /\ UNCHANGED <<array, splitters, buffer>>

(* What block has for a bucket: up to the next block's, or the next bucket. *)
Share(block, b) ==
  (IF block + 1 < num_blocks THEN counts[block + 1, b] ELSE bucket_offsets[b + 1]) - counts[block, b]

(* Where bucket b begins in the sorted block. *)
Source(block, b) ==
  BlockStart(block) + PrefixSums(Plus, 0, [c \in Buckets |-> Share(block, c)], b)[b]

Moves(block) ==
  UNION {{<<counts[block, b] + i, Source(block, b) + i>> : i \in 0..(Share(block, b) - 1)} :
           b \in Buckets}

Copy(block) ==
  /\ Task("copy", block)
  /\ array' = [i \in DOMAIN array \cup {move[1] : move \in Moves(block)} |->
                 IF \E move \in Moves(block) : move[1] = i
                 THEN buffer[(CHOOSE move \in Moves(block) : move[1] = i)[2]] ELSE array[i]]
  /\ UNCHANGED <<splitters, buffer, counts, bucket_offsets>>

SortBuckets ==
  /\ Turn("copy", "sort", Buckets)
  /\ UNCHANGED <<array, splitters, buffer, counts, bucket_offsets>>

(* Bug for the mutation runs: the splitters on both sides of the next one. *)
AllEqualNext(b) == {b, b + 1} \subseteq DOMAIN splitters /\ ~ comp(splitters[b], splitters[b + 1])

AllEqual(b) ==
  /\ {b - 1, b} \subseteq DOMAIN splitters
  /\ ~ comp(splitters[b - 1], splitters[b]) /\ ~ comp(splitters[b], splitters[b - 1])

SortBucket(b) ==
  /\ Task("sort", b)
  /\ array' = IF AllEqual(b) THEN array
              ELSE Store(array, bucket_offsets[b], Sorted(bucket_offsets[b], bucket_offsets[b + 1]))
  /\ UNCHANGED <<splitters, buffer, counts, bucket_offsets>>

Return == Turn("sort", "done", {}) /\ UNCHANGED <<array, splitters, buffer, counts, bucket_offsets>>

Next ==
  \/ Histogram \/ SortBuckets \/ Return
  \/ \E b \in todo : Count(b) \/ Copy(b) \/ SortBucket(b)

-----------------------------------------------------------------------------
(* sample_sort ends with the values it was given, each as often as before,  *)
(* in order; also where keys repeat and splitters coincide.                 *)
SortsItsInput ==
  pass = "done" =>
    /\ \A i \in 1..(n - 1) : ~ comp(array[i], array[i - 1])
    /\ DOMAIN array = 0..(n - 1) /\ {array[i][2] : i \in DOMAIN array} = 0..(n - 1)

=============================================================================
