-------------------------------- MODULE Pack --------------------------------
(***************************************************************************)
(* pack of pack.h: the indices from start on where a condition holds, in   *)
(* order.  A first pass evaluates the condition into the bits of mask and  *)
(* counts them, a second one writes behind the blocks before.              *)
(***************************************************************************)
EXTENDS Blocks

CONSTANTS
  Sizes,       \* values of n
  start,
  W,           \* bits per word of mask, 64 in the code
  Sequential,  \* below this size one block is all, 8192 in the code
  MaxBlocks,   \* num_workers() * 16 in the code
  Grain        \* words per block, at least; 16 in the code

VARIABLES
  n,
  condition,   \* the indices where it holds, also before start and behind the end
  mask, counts, output

end == start + n
num_words == CeilDiv(n, W)
num_blocks == IF n < Sequential THEN 1 ELSE Least(MaxBlocks, CeilDiv(num_words, Grain))
block_words == CeilDiv(num_words, num_blocks)

(* Bug for the mutation runs: a last word may belong to two blocks. *)
WordsOfOneMore(block) ==
  (block * block_words)..(Least(num_words, (block + 1) * block_words + 1) - 1)

(* A block that would begin behind the last word has none. *)
WordsOf(block) == (block * block_words)..(Least(num_words, (block + 1) * block_words) - 1)

pack_mask_word(base) == condition \cap (base..(Least(end, base + W) - 1))

Init ==
  /\ n \in Sizes
  /\ condition \in SUBSET ((start - 1)..end)
  /\ mask = [w \in 0..(num_words - 1) |-> {}]
  /\ counts = [block \in 0..(num_blocks - 1) |-> 0]
  /\ output = <<>>
  /\ pass = "count" /\ todo = 0..(num_blocks - 1)

Words(block) == [w \in WordsOf(block) |-> pack_mask_word(start + w * W)]

Count(block) ==
  /\ Task("count", block)
  /\ mask' = [w \in DOMAIN mask |-> IF w \in WordsOf(block) THEN Words(block)[w] ELSE mask[w]]
  /\ counts' = [counts EXCEPT ![block] = Cardinality(UNION {Words(block)[w] : w \in WordsOf(block)})]
  /\ UNCHANGED <<n, condition, output>>

Unwritten == -1

Offsets ==
  LET prefixes == PrefixSums(Plus, 0, counts, num_blocks)
  IN  /\ Turn("count", "write", 0..(num_blocks - 1))
      /\ counts' = [block \in DOMAIN counts |-> prefixes[block]]
      /\ output' = [i \in 0..(prefixes[num_blocks] - 1) |-> Unwritten]
      /\ UNCHANGED <<n, condition, mask>>

(* The 1 bits of the words of a block, from the lowest. *)
Ones(block) == Ascending(UNION {mask[w] : w \in WordsOf(block)})

Write(block) ==
  /\ Task("write", block)
  /\ output' = Store(output, counts[block], Ones(block))
  /\ UNCHANGED <<n, condition, mask, counts>>

Return == Turn("write", "done", {}) /\ UNCHANGED <<n, condition, mask, counts, output>>

Next ==
  \/ Offsets \/ Return
  \/ \E block \in todo : Count(block) \/ Write(block)

-----------------------------------------------------------------------------
(* pack returns what it should, in order, in an array that just holds it,   *)
(* whatever the number of blocks, also if the last ones have no words.      *)
PacksInOrder ==
  LET wanted == Ascending(condition \cap (start..(end - 1)))
  IN  pass = "done" => output = [i \in 0..(Len(wanted) - 1) |-> wanted[i + 1]]

=============================================================================
