-------------------------------- MODULE Scan --------------------------------
(***************************************************************************)
(* scan of scan.h: all prefix combinations of f(start) .. f(start + n - 1).*)
(* Combine need be neither commutative nor arithmetic: here f(i) is <<i>>  *)
(* and Combine is concatenation, which tells any two orders apart.         *)
(***************************************************************************)
EXTENDS Blocks

CONSTANTS
  Sizes,       \* values of n
  start,
  Sequential,  \* below this size one block is all, 8192 in the code
  BlockSize    \* 2048 in the code

VARIABLES n, offsets, output

block_size == IF n < Sequential THEN n ELSE BlockSize
num_blocks == IF n < Sequential THEN 1 ELSE CeilDiv(n, BlockSize)
local_start(block) == block * block_size
local_end(block) == Least(n, local_start(block) + block_size)

(* The combination of f over lo .. hi - 1, counted from start. *)
Total(lo, hi) == [j \in 1..(hi - lo) |-> start + lo + j - 1]

Init ==
  /\ n \in Sizes
  /\ offsets = [block \in 0..num_blocks |-> <<>>]
  /\ output = [i \in 0..n |-> <<>>]
  /\ pass = "totals" /\ todo = 0..(num_blocks - 1)

Totals(block) ==
  /\ Task("totals", block)
  /\ offsets' = [offsets EXCEPT ![block] = Total(local_start(block), local_end(block))]
  /\ UNCHANGED <<n, output>>

Concat == [x, y \in Seq(Int) |-> x \o y]

Offsets ==
  LET prefixes == PrefixSums(Concat, <<>>, offsets, num_blocks)
  IN  /\ Turn("totals", "write", 0..(num_blocks - 1))
      /\ offsets' = prefixes
      /\ output' = Store(output, n, <<prefixes[num_blocks]>>)
      /\ UNCHANGED n

(* Bug for the mutation runs: the value of the place itself is included. *)
UpToInclusive(block, j) == Total(local_start(block), local_start(block) + j)

UpTo(block, j) == Total(local_start(block), local_start(block) + j - 1)

Write(block) ==
  /\ Task("write", block)
  /\ output' = Store(output, local_start(block),
                     [j \in 1..(local_end(block) - local_start(block)) |->
                        Concat[offsets[block], UpTo(block, j)]])
  /\ UNCHANGED <<n, offsets>>

Return == Turn("write", "done", {}) /\ UNCHANGED <<n, offsets, output>>

Next ==
  \/ Offsets \/ Return
  \/ \E block \in todo : Totals(block) \/ Write(block)

-----------------------------------------------------------------------------
(* scan returns every prefix in order, each element once, across the        *)
(* borders of the blocks; reduce combines in the same order.                *)
PrefixesInOrder ==
  pass = "done" =>
    /\ output = [i \in 0..n |-> Total(0, i)]
    /\ \A g \in 1..(n + 1) :
         reduce(Concat, <<>>, [i \in start..(start + n) |-> <<i>>], start, start + n, g) = Total(0, n)

=============================================================================
