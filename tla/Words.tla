------------------------------- MODULE Words -------------------------------
(***************************************************************************)
(* The geometry of the trees of index_set.h and index_map.h: indices       *)
(* 0 .. n-1 in layers of words, where bit p of layer k + 1 stands for word *)
(* p of layer k.  A layer is the set of the positions of its 1 bits; the   *)
(* word of position p is p \div B.                                         *)
(***************************************************************************)
EXTENDS Integers, FiniteSets

CONSTANTS
  B,         \* bits per word, 64 in the code
  Layers,    \* number of layers, toggle.size() or tree.size()
  n          \* capacity of the tree

(* As many layers as n indices need. Of the powers of B it says only what *)
(* arithmetic does: to the provers ^ is any function.                     *)
Geometry ==
  /\ B \in Nat /\ B >= 2
  /\ n \in Nat \ {0} /\ Layers \in Nat \ {0}
  /\ n <= B ^ Layers
  /\ Layers > 1 => n > B ^ (Layers - 1)
  /\ B ^ 0 = 1
  /\ \A k \in 0..Layers : B ^ k \in Nat \ {0} /\ B ^ (k + 1) = B ^ k * B

ASSUME WordsAssumption == Geometry

Indices == 0..(n - 1)
Top     == Layers - 1
Levels  == 0..Top

(* index >> (6 * layer): its word_id is one layer up, its offset the rest. *)
Pos(k, i) == i \div (B ^ k)
word_id(p) == p \div B
OfWord(w) == (w * B)..(w * B + B - 1)

(* Bits and words of layer k. *)
Length(k) == (n + B ^ k - 1) \div (B ^ k)
NumWords(k) == (Length(k) + B - 1) \div B

(***************************************************************************)
(* fetch_add of one bit of a word: a carry runs to the next 0 bit and is   *)
(* lost past the end of the word.                                          *)
(***************************************************************************)
Upwards(p) == p..(word_id(p) * B + B - 1)

First(S) == CHOOSE m \in S : \A q \in S : m <= q

AddBit(S, p) ==
  LET zeros == Upwards(p) \ S
  IN  IF zeros = {} THEN S \ Upwards(p)
      ELSE (S \ (p..First(zeros))) \cup {First(zeros)}

=============================================================================
