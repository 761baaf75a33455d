------------------------------ MODULE WriteMin ------------------------------
(***************************************************************************)
(* write_min of atomic.h on one address, called by several threads, with   *)
(* one action per access to the address.  (write_max is the same with the  *)
(* order of the values reversed.)                                          *)
(***************************************************************************)
EXTENDS Integers

CONSTANTS
  Writers,
  Numbers       \* the values threads write, and the cell may begin with

ASSUME WriteMinAssumption == Numbers \subseteq Int

VARIABLES
  address,     \* the value at the address
  pc,          \* "outside", "read", "swap" or "done"
  value,       \* the argument
  old_value,   \* the local variable
  answer       \* the value returned

write_min_vars == <<address, pc, value, old_value, answer>>

WriteMinInit ==
  /\ address \in Numbers
  /\ pc = [t \in Writers |-> "outside"]
  /\ value = [t \in Writers |-> 0]
  /\ old_value = [t \in Writers |-> 0]
  /\ answer = [t \in Writers |-> FALSE]

write_min(t, v) ==
  /\ pc[t] = "outside"
  /\ pc' = [pc EXCEPT ![t] = "read"]
  /\ value' = [value EXCEPT ![t] = v]
  /\ UNCHANGED <<address, old_value, answer>>

(* Bugs for the mutation runs: an equal value is written; a failed swap    *)
(* does not load; any value is replaced.                                   *)
CompareEqual(t, old) ==
  /\ old_value' = [old_value EXCEPT ![t] = old]
  /\ pc' = [pc EXCEPT ![t] = IF value[t] <= old THEN "swap" ELSE "done"]
  /\ answer' = [answer EXCEPT ![t] = FALSE]
CompareStale(t, old) ==
  /\ old_value' = [old_value EXCEPT ![t] = IF pc[t] = "read" THEN old ELSE @]
  /\ pc' = [pc EXCEPT ![t] = IF value[t] < old_value'[t] THEN "swap" ELSE "done"]
  /\ answer' = [answer EXCEPT ![t] = FALSE]
MatchesAny(t) == TRUE

(* The test of the loop on a new old_value: go on to swap, or answer no. *)
Compare(t, old) ==
  /\ old_value' = [old_value EXCEPT ![t] = old]
  /\ pc' = [pc EXCEPT ![t] = IF value[t] < old THEN "swap" ELSE "done"]
  /\ answer' = [answer EXCEPT ![t] = FALSE]

Read(t) ==
  /\ pc[t] = "read"
  /\ Compare(t, address)
  /\ UNCHANGED <<address, value>>

(* compare_and_swap: stores if the address holds old_value, and otherwise *)
(* loads what it holds into old_value. *)
Matches(t) == address = old_value[t]

Swap(t) ==
  /\ pc[t] = "swap"
  /\ IF Matches(t)
       THEN /\ address' = value[t]
            /\ pc' = [pc EXCEPT ![t] = "done"]
            /\ answer' = [answer EXCEPT ![t] = value[t] < old_value[t]]
            /\ UNCHANGED old_value
       ELSE /\ Compare(t, address)
            /\ UNCHANGED address
  /\ UNCHANGED value

Return(t) ==
  /\ pc[t] = "done"
  /\ pc' = [pc EXCEPT ![t] = "outside"]
  /\ value' = [value EXCEPT ![t] = 0]
  /\ old_value' = [old_value EXCEPT ![t] = 0]
  /\ answer' = [answer EXCEPT ![t] = FALSE]
  /\ UNCHANGED address

GoesOn(t) == Read(t) \/ Swap(t) \/ Return(t)

WriteMinNext == \E t \in Writers : GoesOn(t) \/ \E v \in Numbers : write_min(t, v)

WriteMinSpec == WriteMinInit /\ [][WriteMinNext]_write_min_vars

(* A thread inside a call goes on. *)
WriteMinFairSpec == WriteMinSpec /\ \A t \in Writers : WF_write_min_vars(GoesOn(t))

-----------------------------------------------------------------------------
(***************************************************************************)
(* A thread about to swap has seen a larger value than its own: what it    *)
(* stores is always a decrease.                                            *)
(***************************************************************************)
WriteMinTypeOK ==
  /\ address \in Numbers
  /\ pc \in [Writers -> {"outside", "read", "swap", "done"}]
  /\ value \in [Writers -> Int] /\ old_value \in [Writers -> Int]
  /\ answer \in [Writers -> BOOLEAN]
  /\ \A t \in Writers :
       /\ pc[t] \in {"read", "swap"} => value[t] \in Numbers /\ ~ answer[t]
       /\ pc[t] = "swap" => value[t] < old_value[t]
       /\ pc[t] = "outside" => value[t] = 0 /\ ~ answer[t]

(***************************************************************************)
(* write_min is atomic: every call takes effect in one step, at its        *)
(* successful swap or at the load that shows it has nothing to do, and     *)
(* answers for that moment.                                                *)
(***************************************************************************)
AM == INSTANCE AtomicMin WITH
  Threads <- Writers, Values <- Numbers, cell <- address,
  call <- [t \in Writers |->
             [at |-> IF pc[t] \in {"read", "swap"} THEN "pending" ELSE pc[t],
              value |-> value[t], answer |-> answer[t]]]

ImplementsAtomicMin == AM!Spec

(***************************************************************************)
(* Every call returns: a swap fails only because the value has decreased.  *)
(***************************************************************************)
CallsReturn == \A t \in Writers : pc[t] = "read" ~> pc[t] = "outside"

=============================================================================
