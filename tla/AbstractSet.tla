----------------------------- MODULE AbstractSet -----------------------------
(***************************************************************************)
(* What a toggle tree promises its callers, without layers and words: a    *)
(* set to which a phase inserts, from which a phase removes, or which a    *)
(* phase hands out, each element in range once and no other index.         *)
(***************************************************************************)
EXTENDS Integers

CONSTANTS
  Indices,
  Phases      \* the kinds of operations the caller uses

VARIABLES
  elements,
  phase,      \* the kind of operations in progress
  asked,      \* what the traversal is to hand out
  handed      \* how often it has handed out each index

vars == <<elements, phase, asked, handed>>

Consuming  == {"consume_each", "consume_range"}
Traversals == {"for_each", "for_range", "for_each_remove"} \cup Consuming

NoCount == [i \in Indices |-> 0]

Init ==
  /\ elements \in {{}, Indices}
  /\ phase = "quiet" /\ asked = {} /\ handed = NoCount

Begin(p) ==
  /\ phase = "quiet" /\ phase' = p
  /\ IF p \in {"for_range", "consume_range"}
       THEN asked' \in {S \in SUBSET elements : \A i, k \in S : elements \cap i..k \subseteq S}
       ELSE asked' = IF p \in Traversals THEN elements ELSE {}
  /\ UNCHANGED <<elements, handed>>

Insert(i) ==
  /\ phase = "insert" /\ elements' = elements \cup {i}
  /\ UNCHANGED <<phase, asked, handed>>

Remove(i) ==
  /\ phase = "remove" /\ elements' = elements \ {i}
  /\ UNCHANGED <<phase, asked, handed>>

(***************************************************************************)
(* f is called on some of what was asked for.  A consuming traversal takes *)
(* them out; in for_each_remove f may do so.                               *)
(***************************************************************************)
HandOut(S) ==
  /\ phase \in Traversals /\ \A i \in S : handed[i] = 0
  /\ handed' = [i \in Indices |-> handed[i] + IF i \in S THEN 1 ELSE 0]
  /\ \/ phase \in Consuming /\ elements' = elements \ S
     \/ phase \in {"for_each", "for_range"} /\ elements' = elements
     \/ phase = "for_each_remove" /\ \E T \in SUBSET S : elements' = elements \ T
  /\ UNCHANGED <<phase, asked>>

(* A traversal returns when it has handed out everything. *)
End ==
  /\ phase # "quiet" /\ \A i \in asked : handed[i] = 1
  /\ phase' = "quiet" /\ asked' = {} /\ handed' = NoCount
  /\ UNCHANGED elements

Next ==
  \/ End
  \/ \E p \in Phases : Begin(p)
  \/ \E i \in Indices : Insert(i) \/ Remove(i)
  \/ \E S \in SUBSET asked : HandOut(S)

Spec == Init /\ [][Next]_vars

=============================================================================
