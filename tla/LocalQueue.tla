------------------------------ MODULE LocalQueue ------------------------------
(***************************************************************************)
(* The queue of local_queue.h in the hands of local_search, as it is used  *)
(* in breadth_first_search.h and k_core.h: a call for a vertex of small    *)
(* degree searches it and what it finds from an array of fixed size, until *)
(* the queue is empty or the next vertex could find more than the array    *)
(* still holds.  What is left is handed to further calls.                  *)
(*                                                                         *)
(* Every call has a queue of its own, so that one call at a time shows     *)
(* what there is to see.  The target of an edge, and whether it is to be   *)
(* searched, is for the algorithms to say and left open here.              *)
(***************************************************************************)
EXTENDS Integers, FiniteSets

CONSTANTS
  Nodes,
  None,         \* no vertex
  Degrees,      \* functions from vertices to their out-degrees
  Capacity,     \* 1024 and 128 in the code
  MaxFound      \* bound: how many vertices are found in all

ASSUME QueueAssumption ==
  /\ Capacity \in Nat \ {0} /\ MaxFound \in Nat
  /\ None \notin Nodes /\ Degrees \subseteq [Nodes -> Nat]

VARIABLES
  degree,
  calls,        \* the calls of local_search that have not begun, by vertex
  at,           \* where the present call is
  local_queue, lpos, rpos, capacity,
  edges,        \* edges left of the vertex that is being searched
  found         \* history: how many vertices were found

queue == <<local_queue, lpos, rpos, capacity>>
queue_vars == <<degree, calls, at, queue, edges, found>>

QueueInit ==
  /\ degree \in Degrees
  /\ \E v \in Nodes : calls = [u \in Nodes |-> IF u = v THEN 1 ELSE 0]
  /\ at = "idle" /\ edges = 0 /\ found = 0
  /\ local_queue = [p \in 0..(Capacity - 1) |-> None]
  /\ lpos = 0 /\ rpos = 0 /\ capacity = 0

(* Bug for the mutation runs: the boundary case gets a queue. *)
WideAbove(v) == degree[v] > Capacity

(* The edges of such a vertex are visited in parallel, without a queue. *)
Wide(v) == degree[v] >= Capacity

local_search(v) ==
  /\ at = "idle" /\ calls[v] > 0
  /\ calls' = [calls EXCEPT ![v] = @ - 1]
  /\ IF Wide(v)
       THEN at' = "wide" /\ edges' = degree[v] /\ UNCHANGED queue
       ELSE /\ at' = "pop"
            /\ local_queue' = [p \in 0..(Capacity - 1) |-> IF p = 0 THEN v ELSE None]
            /\ lpos' = 0 /\ rpos' = 1 /\ capacity' = Capacity - 1
            /\ UNCHANGED edges
  /\ UNCHANGED <<degree, found>>

(* Bug: the array is taken to be empty. *)
RoomForAny(workload) == workload < Capacity

Room(workload) == capacity >= workload

pop_top ==
  LET workload == degree[local_queue[lpos]]
  IN  /\ at = "pop" /\ lpos # rpos /\ Room(workload)
      /\ lpos' = lpos + 1 /\ capacity' = capacity - workload
      /\ at' = "visit" /\ edges' = workload
      /\ UNCHANGED <<degree, calls, local_queue, rpos, found>>

push_back(d) ==
  /\ local_queue' = [local_queue EXCEPT ![rpos] = d]
  /\ rpos' = rpos + 1
  /\ UNCHANGED <<lpos, capacity>>

(* An edge of a vertex from the queue, or of one that has none. *)
Visit ==
  /\ at = "visit" /\ edges > 0 /\ edges' = edges - 1
  /\ \/ UNCHANGED <<queue, found>>
     \/ /\ found < MaxFound /\ found' = found + 1
        /\ \E d \in Nodes : push_back(d)
  /\ UNCHANGED <<degree, calls, at>>

VisitWide ==
  /\ at = "wide" /\ edges > 0 /\ edges' = edges - 1
  /\ \/ UNCHANGED <<calls, found>>
     \/ /\ found < MaxFound /\ found' = found + 1
        /\ \E d \in Nodes : calls' = [calls EXCEPT ![d] = @ + 1]
  /\ UNCHANGED <<degree, at, queue>>

Visited ==
  /\ at \in {"visit", "wide"} /\ edges = 0
  /\ at' = IF at = "visit" THEN "pop" ELSE "idle"
  /\ UNCHANGED <<degree, calls, queue, edges, found>>

(* Bug: what has been searched is handed out again. *)
RestFromStart == 0..(rpos - 1)

Rest == lpos..(rpos - 1)

(* Only what is in the array is there. *)
Entries(places, v) == Cardinality({p \in places : p < Capacity /\ local_queue[p] = v})

(* pop_top returns UINT64_MAX: for_each hands out the rest. *)
for_each ==
  /\ at = "pop" /\ (lpos # rpos => ~ Room(degree[local_queue[lpos]]))
  /\ calls' = [v \in Nodes |-> calls[v] + Entries(Rest, v)]
  /\ at' = "idle" /\ lpos' = 0 /\ rpos' = 0
  /\ UNCHANGED <<degree, local_queue, capacity, edges, found>>

Ended == at = "idle" /\ \A v \in Nodes : calls[v] = 0

Done == Ended /\ UNCHANGED queue_vars

QueueNext ==
  \/ pop_top \/ Visit \/ VisitWide \/ Visited \/ for_each \/ Done
  \/ \E v \in Nodes : local_search(v)

QueueSpec == QueueInit /\ [][QueueNext]_queue_vars

-----------------------------------------------------------------------------
QueueTypeOK ==
  /\ degree \in Degrees /\ calls \in [Nodes -> Nat]
  /\ at \in {"idle", "pop", "visit", "wide"}
  /\ local_queue \in [0..(Capacity - 1) -> Nodes \cup {None}]
  /\ lpos \in 0..rpos /\ rpos \in 0..Capacity
  /\ capacity \in 0..Capacity /\ edges \in Nat /\ found \in 0..MaxFound

(* The array has room for what the edges still to be visited can find, and  *)
(* for the edges that pop_top may still promise.                            *)
FindsFit == at \in {"pop", "visit"} => rpos + (IF at = "visit" THEN edges ELSE 0) + capacity <= Capacity

(* A call searches at least its own vertex: otherwise for_each would hand   *)
(* it to the same call again, without end.                                  *)
CallsAdvance == at = "pop" /\ lpos = 0 => Room(degree[local_queue[0]])

(* What the queue still holds are vertices, never places not written to.    *)
HoldsVertices == \A p \in Rest : local_queue[p] \in Nodes

(* Between two vertices no edges are left, and while edges of one are       *)
(* visited it has left the queue.                                           *)
InPhase ==
  /\ at \in {"idle", "pop"} => edges = 0
  /\ at = "visit" => lpos > 0

QueueInvariant == QueueTypeOK /\ FindsFit /\ CallsAdvance /\ HoldsVertices /\ InPhase

(***************************************************************************)
(* The queue and the calls together are a worklist: every vertex that is   *)
(* found is searched once, by the call that has it or by another.          *)
(***************************************************************************)
Pending ==
  [v \in Nodes |-> calls[v] + IF at \in {"pop", "visit"} THEN Entries(Rest, v) ELSE 0]

Promise == INSTANCE Worklist WITH
  pending <- Pending

ImplementsWorklist == Promise!Spec

=============================================================================
