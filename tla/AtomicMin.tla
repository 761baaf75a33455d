----------------------------- MODULE AtomicMin -----------------------------
(***************************************************************************)
(* What write_min of atomic.h promises to the algorithms that lower        *)
(* distances with it: each call takes the minimum in one step, and answers *)
(* whether it lowered the cell.                                            *)
(***************************************************************************)
EXTENDS Integers

CONSTANTS
  Threads,
  Values      \* integers

VARIABLES
  cell,
  call      \* the call each thread is in: its value, and its answer if it has one

Outside == [at |-> "outside", value |-> 0, answer |-> FALSE]

Init ==
  /\ cell \in Values
  /\ call = [t \in Threads |-> Outside]

Call(t, v) ==
  /\ call[t] = Outside
  /\ call' = [call EXCEPT ![t] = [at |-> "pending", value |-> v, answer |-> FALSE]]
  /\ UNCHANGED cell

(* The minimum and the answer, in one step. *)
Take(t) ==
  /\ call[t].at = "pending"
  /\ cell' = IF call[t].value < cell THEN call[t].value ELSE cell
  /\ call' = [call EXCEPT ![t] = [at |-> "done", value |-> @.value,
                                  answer |-> call[t].value < cell]]

Return(t) ==
  /\ call[t].at = "done"
  /\ call' = [call EXCEPT ![t] = Outside]
  /\ UNCHANGED cell

Next == \E t \in Threads : Take(t) \/ Return(t) \/ \E v \in Values : Call(t, v)

Spec == Init /\ [][Next]_<<cell, call>>

=============================================================================
