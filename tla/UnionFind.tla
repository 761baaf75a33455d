------------------------------ MODULE UnionFind ------------------------------
(***************************************************************************)
(* find and unite of atomic.h: a union-find forest that threads use at the *)
(* same time without locks, one action per access to an element of parent. *)
(* unite links the larger of two roots under the smaller one with a        *)
(* compare_and_set; both shorten the paths they walk with plain stores.    *)
(***************************************************************************)
EXTENDS Integers

CONSTANTS
  N,          \* elements 0 .. N - 1
  Threads

ASSUME UnionFindAssumption == N \in Nat \ {0}

VARIABLES
  parent,     \* the Sequence the caller passes
  call,       \* the call each thread is in, and its local variables
  set         \* history: the set each element was put in by unite

vars == <<parent, call, set>>

Elements == 0..(N - 1)

(***************************************************************************)
(* In unite, walk is the argument find_halve works for, x, p and pp its    *)
(* x, px and ppx.  In find, x is the argument, p and pp are pi and ppi.    *)
(***************************************************************************)
Call == [fn : {"none", "find", "unite"},
         at : {"idle", "read", "read2", "chase", "store", "test", "set"},
         args : Elements \X Elements, i : Elements, j : Elements, walk : {"i", "j"},
         x : Elements, p : Elements, pp : Elements]

Idle == [fn |-> "none", at |-> "idle", args |-> <<0, 0>>, i |-> 0, j |-> 0, walk |-> "i",
         x |-> 0, p |-> 0, pp |-> 0]

Init ==
  /\ parent = [e \in Elements |-> e]
  /\ call = [t \in Threads |-> Idle]
  /\ set = [e \in Elements |-> {e}]

(* Thread t goes on to place at with other values of p and pp. *)
Goes(t, at, p, pp) == call' = [call EXCEPT ![t].at = at, ![t].p = p, ![t].pp = pp]

Returns(t) == call' = [call EXCEPT ![t] = Idle]

-----------------------------------------------------------------------------
Find(t, e) ==
  /\ call[t] = Idle
  /\ call' = [call EXCEPT ![t] = [Idle EXCEPT !.fn = "find", !.at = "read",
                !.args = <<e, e>>, !.x = e]]
  /\ UNCHANGED <<parent, set>>

Unite(t, e, d) ==
  /\ call[t] = Idle
  /\ call' = [call EXCEPT ![t] = [Idle EXCEPT !.fn = "unite", !.at = "read",
                !.args = <<e, d>>, !.i = e, !.j = d, !.x = e]]
  /\ UNCHANGED <<parent, set>>

(* The parent of x, and then the parent of that. *)
ReadParent(t) ==
  /\ call[t].at = "read"
  /\ Goes(t, "read2", parent[call[t].x], 0)
  /\ UNCHANGED <<parent, set>>

(***************************************************************************)
(* find_halve has found the root r of i: it goes on with j.  When both are *)
(* found, equal roots mean the answer max() and others are to be linked,   *)
(* the larger under the smaller.                                           *)
(***************************************************************************)
(* Bug for the mutation runs: the order of the roots does not matter. *)
LargerUnordered(a, b) == a

Larger(a, b) == IF a < b THEN b ELSE a

Found(t, r) ==
  LET c == call[t] IN
    IF c.walk = "i"
      THEN call' = [call EXCEPT ![t] = [c EXCEPT !.at = "read", !.i = r, !.walk = "j",
                      !.x = c.j, !.p = 0, !.pp = 0]]
    ELSE IF c.i = r THEN Returns(t)
    ELSE call' = [call EXCEPT ![t] = [c EXCEPT !.at = "test", !.walk = "i",
                    !.i = Larger(c.i, r), !.j = IF Larger(c.i, r) = r THEN c.i ELSE r,
                    !.x = 0, !.p = 0, !.pp = 0]]

ReadGrandparent(t) ==
  LET c  == call[t]
      pp == parent[c.p]
  IN  /\ c.at = "read2"
      /\ IF c.fn = "unite"
           THEN IF c.p = pp THEN Found(t, pp) ELSE Goes(t, "store", c.p, pp)
           ELSE IF c.p = pp THEN Returns(t) ELSE Goes(t, "chase", pp, pp)
      /\ UNCHANGED <<parent, set>>

(* find: up to an element that is its own parent. *)
Chase(t) ==
  LET pp == parent[call[t].pp]
  IN  /\ call[t].at = "chase"
      /\ IF call[t].p = pp THEN Goes(t, "store", pp, pp) ELSE Goes(t, "chase", pp, pp)
      /\ UNCHANGED <<parent, set>>

(* find and find_halve: a plain store of an ancestor, whatever is there. *)
Store(t) ==
  LET c == call[t]
  IN  /\ c.at = "store"
      /\ parent' = [parent EXCEPT ![c.x] = c.pp]
      /\ IF c.fn = "find" THEN Returns(t)
         ELSE call' = [call EXCEPT ![t] = [c EXCEPT !.at = "read", !.x = c.pp, !.p = 0, !.pp = 0]]
      /\ UNCHANGED set

(* Bug: unite gives up. *)
AgainNot(t) == Returns(t)

(* unite: another round, from the roots found in this one. *)
Again(t) ==
  call' = [call EXCEPT ![t] = [call[t] EXCEPT !.at = "read", !.x = call[t].i]]

(* Bug: what was read before is not compared again. *)
StillRootUntested(i) == TRUE

StillRoot(i) == parent[i] = i

(* compare_and_set: a load, and compare_exchange only if it found the root. *)
Test(t) ==
  /\ call[t].at = "test"
  /\ IF parent[call[t].i] = call[t].i
       THEN call' = [call EXCEPT ![t].at = "set"]
       ELSE Again(t)
  /\ UNCHANGED <<parent, set>>

Link(t) ==
  LET c == call[t]
      joined == set[c.args[1]] \cup set[c.args[2]]
  IN  /\ c.at = "set"
      /\ IF StillRoot(c.i)
           THEN /\ parent' = [parent EXCEPT ![c.i] = c.j]
                /\ set' = [e \in Elements |-> IF e \in joined THEN joined ELSE set[e]]
                /\ Returns(t)
           ELSE Again(t) /\ UNCHANGED <<parent, set>>

Step(t) ==
  ReadParent(t) \/ ReadGrandparent(t) \/ Chase(t) \/ Store(t) \/ Test(t) \/ Link(t)

Next ==
  \E t \in Threads :
    \/ Step(t)
    \/ \E e \in Elements : Find(t, e) \/ \E d \in Elements : Unite(t, e, d)

Spec == Init /\ [][Next]_vars

-----------------------------------------------------------------------------
(***************************************************************************)
(* No element is its own ancestor: linking and path shortening that race   *)
(* with each other only ever store smaller elements, so every walk ends.   *)
(***************************************************************************)
TypeOK ==
  /\ parent \in [Elements -> Elements]
  /\ \A e \in Elements : parent[e] <= e
  /\ call \in [Threads -> Call]
  /\ set \in [Elements -> SUBSET Elements]

(***************************************************************************)
(* The trees of the forest are the sets that unite was asked to join: a    *)
(* store of a stale ancestor never moves an element to another set.        *)
(***************************************************************************)
TreesAreTheSets ==
  LET root[e \in Elements] == IF parent[e] = e THEN e ELSE root[parent[e]]
  IN  \A e \in Elements : set[e] = {d \in Elements : root[d] = root[e]}

(***************************************************************************)
(* What a thread is about to store lies below the place it stores it in,   *)
(* however old its reads are.                                              *)
(***************************************************************************)
StoresDescend ==
  \A t \in Threads :
    LET c == call[t]
    IN  /\ c.at = "read2" => c.p <= c.x
        /\ c.at \in {"chase", "store"} => c.pp < c.x
        /\ c.at \in {"test", "set"} => c.j < c.i

(***************************************************************************)
(* Why that is so: the sets are disjoint and closed under parent, and the  *)
(* one root in a set is its least element.                                 *)
(***************************************************************************)
SetsAreApart ==
  \A e \in Elements :
    /\ e \in set[e] /\ parent[e] \in set[e]
    /\ \A d \in set[e] : set[d] = set[e]

RootsAreLeast == \A e \in Elements : parent[e] = e => \A d \in set[e] : e <= d

(***************************************************************************)
(* All that a thread holds lies in the sets of the call's arguments: in    *)
(* unite one of i and j in each of the two, and a walk in the set it       *)
(* started in, whatever was joined to that since.                          *)
(***************************************************************************)
StaysIn(c, sets) ==
  LET a == sets[c.args[1]]
      b == sets[c.args[2]]
  IN  /\ c.fn = "unite" =>
           /\ (c.i \in a /\ c.j \in b) \/ (c.i \in b /\ c.j \in a)
           /\ c.at \in {"read", "read2", "store"} => c.x \in sets[IF c.walk = "i" THEN c.i ELSE c.j]
      /\ c.at = "chase" => c.fn # "unite"
      /\ c.at \in {"test", "set"} => c.fn = "unite" /\ c.walk = "i"
      /\ c.at = "read2" => c.p \in sets[c.x]
      /\ c.at \in {"chase", "store"} => c.pp \in sets[c.x]

WalksStayInSets == \A t \in Threads : StaysIn(call[t], set)

ForestInvariant ==
  /\ TypeOK
  /\ StoresDescend
  /\ SetsAreApart
  /\ RootsAreLeast
  /\ WalksStayInSets
  /\ TreesAreTheSets

(***************************************************************************)
(* unite answers max() only if its arguments are already in one set, and   *)
(* otherwise has joined two sets that were apart: the calls that did not   *)
(* answer max() form a spanning forest.                                    *)
(***************************************************************************)
UniteTellsTheTruth ==
  [][\A t \in Threads :
       call[t].fn = "unite" /\ call'[t] = Idle =>
         LET a == call[t].args[1]
             b == call[t].args[2]
         IN  /\ b \in set'[a]
             /\ b \in set[a] <=> parent' = parent]_vars

(***************************************************************************)
(* An element that was linked never becomes a root again, so every element *)
(* is linked at most once: the answers of unite are distinct, and its      *)
(* rounds end although other threads make its links fail.                  *)
(***************************************************************************)
LinksAreForGood ==
  [][\A e \in Elements : parent[e] # e => parent'[e] # e]_vars

=============================================================================
