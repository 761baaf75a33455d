------------------------------ MODULE ForkJoin ------------------------------
(***************************************************************************)
(* What one worker promises its callers: parallel_do(lf, rf) runs rf       *)
(* exactly once, on the calling worker or on a thief, and returns only     *)
(* after rf has finished (scheduler.h, Scheduler::parallel_do).            *)
(*                                                                         *)
(* Calls nest, so a call is identified by its depth on the worker's call   *)
(* stack.  Nothing is said here of deques, slots or stealing.              *)
(***************************************************************************)
EXTENDS Integers

CONSTANTS
  MaxDepth,   \* bound on the nesting of parallel_do calls of the worker
  Agents      \* the threads that may run a right-hand function

Frames == 1..MaxDepth

VARIABLES
  depth,      \* number of parallel_do calls on the worker's stack
  phase,      \* progress of the right-hand function of each call
  runners     \* the threads inside the right-hand function of each call

vars == <<depth, phase, runners>>

Phases == {"none", "forked", "running", "done"}

TypeOK ==
  /\ depth \in 0..MaxDepth
  /\ phase \in [Frames -> Phases]
  /\ runners \in [Frames -> SUBSET Agents]

Init ==
  /\ depth = 0
  /\ phase = [d \in Frames |-> "none"]
  /\ runners = [d \in Frames |-> {}]

(* parallel_do is called: its right-hand function is now available. *)
Fork ==
  /\ depth < MaxDepth
  /\ depth' = depth + 1
  /\ phase' = [phase EXCEPT ![depth + 1] = "forked"]
  /\ UNCHANGED runners

(* A thread enters the right-hand function of call d, once. *)
Start(d, a) ==
  /\ phase[d] = "forked"
  /\ phase' = [phase EXCEPT ![d] = "running"]
  /\ runners' = [runners EXCEPT ![d] = {a}]
  /\ UNCHANGED depth

(* The right-hand function of call d returns. *)
Finish(d) ==
  /\ phase[d] = "running"
  /\ phase' = [phase EXCEPT ![d] = "done"]
  /\ runners' = [runners EXCEPT ![d] = {}]
  /\ UNCHANGED depth

(* The innermost call returns; its right-hand function has finished. *)
Join ==
  /\ depth > 0
  /\ phase[depth] = "done"
  /\ phase' = [phase EXCEPT ![depth] = "none"]
  /\ depth' = depth - 1
  /\ UNCHANGED runners

Next ==
  \/ Fork
  \/ Join
  \/ \E d \in Frames : Finish(d) \/ \E a \in Agents : Start(d, a)

Spec == Init /\ [][Next]_vars

=============================================================================
