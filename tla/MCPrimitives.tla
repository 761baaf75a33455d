---------------------------- MODULE MCPrimitives -----------------------------
(***************************************************************************)
(* Small instances of the primitives, of read_graph and of LocalQueue for  *)
(* TLC: a program that calls one of them.  They share the variables that   *)
(* have the same name; those a program does not use are None.              *)
(***************************************************************************)
EXTENDS LocalQueue, Sequences, TLC

CONSTANTS
  start, Sequential, BlockSize, W, MaxBlocks, Grain,
  SortInto, ManyBuckets, ShuffleBlocks, copies, block, num_workers,
  AnyVertex     \* the one that waits to be searched while another program runs

VARIABLES
  program, pass, todo,
  n, output, counts, bucket_offsets,             \* of several primitives
  offsets, condition, mask,                      \* of Scan and Pack
  array, splitters, buffer, hash,                \* of SampleSort and RandomPermutation
  file, symmetrized, weighted, G, filling, cursor    \* of ReadGraph

ManyDegrees == [Nodes -> 0..4]

Seqs(S, lengths) == UNION {[1..l -> S] : l \in lengths}

(***************************************************************************)
(* All graphs of 3 vertices with up to 2 edges each, loops and parallel    *)
(* edges among them, and all of 2 vertices with 2 weights.                 *)
(***************************************************************************)
FilesOfRows(with_weights, size, edge) ==
  {[weighted |-> with_weights, rows |-> r] : r \in [1..size -> Seqs(edge, 0..2)]}

Scans    == INSTANCE Scan WITH Sizes <- 0..7
Packs    == INSTANCE Pack WITH Sizes <- 0..8
Sorts    == INSTANCE SampleSort WITH
  Inputs <- Seqs(0..2, {4, 5}) \cup Seqs(0..1, {7}), num_buckets <- SortInto
Shuffles == INSTANCE RandomPermutation WITH Sizes <- 0..5, num_blocks <- ShuffleBlocks
Reads    == INSTANCE ReadGraph WITH
  Files      <- FilesOfRows(FALSE, 3, (0..2) \X {1}) \cup FilesOfRows(TRUE, 2, (0..1) \X (1..2)),
  Weightings <- {[p \in (0..2) \X (0..2) |-> 1 + p[1] + 2 * p[2]]}

-----------------------------------------------------------------------------
Else(used, rest) == IF used THEN TRUE ELSE rest

(***************************************************************************)
(* What holds of the variables a program does not use: they are None, or   *)
(* stay what they are.                                                     *)
(***************************************************************************)
Unused(Stays(_)) ==
  /\ Else(program # "queue", Stays(pass) /\ Stays(todo))
  /\ Else(program \in {"scan", "pack", "permutation"}, Stays(n) /\ Stays(output))
  /\ Else(program \in {"pack", "sort", "permutation"}, Stays(counts))
  /\ Else(program \in {"sort", "permutation"}, Stays(bucket_offsets))
  /\ Else(program = "scan", Stays(offsets))
  /\ Else(program = "pack", Stays(condition) /\ Stays(mask))
  /\ Else(program = "sort", Stays(array) /\ Stays(splitters) /\ Stays(buffer))
  /\ Else(program = "permutation", Stays(hash))
  /\ Else(program = "read", /\ Stays(file) /\ Stays(symmetrized) /\ Stays(weighted)
                            /\ Stays(G) /\ Stays(filling) /\ Stays(cursor))

AllInit ==
  /\ program \in {"scan", "pack", "sort", "permutation", "read", "queue"}
  /\ QueueInit
  /\ Else(program = "queue", calls[AnyVertex] = 1 /\ degree = [v \in Nodes |-> 0])
  /\ \/ program = "scan" /\ Scans!Init
     \/ program = "pack" /\ Packs!Init
     \/ program = "sort" /\ Sorts!Init
     \/ program = "permutation" /\ Shuffles!Init
     \/ program = "read" /\ Reads!Init
     \/ program = "queue"
  /\ Unused(LAMBDA v : v = None)

all_vars ==
  <<program, pass, todo, n, output, counts, bucket_offsets, offsets, condition, mask,
    array, splitters, buffer, hash, file, symmetrized, weighted, G, filling, cursor, queue_vars>>

Step ==
  /\ UNCHANGED program
  /\ \/ program = "scan" /\ Scans!Next
     \/ program = "pack" /\ Packs!Next
     \/ program = "sort" /\ Sorts!Next
     \/ program = "permutation" /\ Shuffles!Next
     \/ program = "read" /\ Reads!Next
     \/ program = "queue" /\ QueueNext
  /\ Else(program = "queue", UNCHANGED queue_vars)
  /\ Unused(LAMBDA v : UNCHANGED v)

(* A primitive that has returned. *)
Returned == pass \in {"done", "reweighted"} /\ UNCHANGED all_vars

AllSpec == AllInit /\ [][Step \/ Returned]_all_vars

-----------------------------------------------------------------------------
(* scan and pack return what they should, in order. *)
ReturnsInOrder ==
  /\ program = "scan" => Scans!PrefixesInOrder
  /\ program = "pack" => Packs!PacksInOrder

(* sample_sort and random_permutation rearrange what they are given, *)
RearrangesInput ==
  /\ program = "sort" => Sorts!SortsItsInput
  /\ program = "permutation" => Shuffles!Permutes

(* and read_graph gives the graph of the file. *)
RowsAreRight == program = "read" => Reads!RowsAreRight

=============================================================================
