------------------------------- MODULE Deque -------------------------------
(***************************************************************************)
(* The work-stealing deque of scheduler.h (struct Deque) under the use     *)
(* parallel_do makes of it: one owner pushes and pops at the bottom, any   *)
(* number of thieves pop at the top.                                       *)
(*                                                                         *)
(* The 16-bit word pos packs two counters, head and tail, of type ST; a    *)
(* load, fetch_sub or compare_exchange reads or writes both at once, and   *)
(* push_bottom publishes by writing the tail half alone.  One action is    *)
(* one access to pos or to a slot of deq.                                  *)
(*                                                                         *)
(* A job is the JobImpl on the stack frame of a parallel_do call, so it is *)
(* named by the depth of that call; a later call at the same depth reuses  *)
(* the address.                                                            *)
(***************************************************************************)
EXTENDS Integers

CONSTANTS
  Modulus,    \* 2^digits of ST: head and tail count modulo this
  Capacity,   \* number of slots of deq
  MaxDepth,   \* bound on the nesting of parallel_do calls of the owner
  Thieves,    \* the other workers
  Owner       \* the worker the deque belongs to

ASSUME DequeAssumption ==
  /\ Modulus \in Nat /\ Capacity \in Nat
  /\ Capacity >= 3 /\ Capacity <= Modulus
  /\ MaxDepth \in Nat \ {0}
  /\ Owner \notin Thieves

VARIABLES
  pos,        \* the packed counters [head, tail]
  deq,        \* the slots
  depth,      \* number of parallel_do calls on the owner's stack
  frame,      \* where each of these calls is
  queued,     \* calls whose push_bottom succeeded (in_deque)
  job_done,       \* calls whose JobImpl::done flag is set
  op,         \* the owner's copy p of pos in push_bottom and pop_bottom
  at,         \* history: logical index at which each job was stored
  tpc,        \* where each thief is in pop_top and execute
  tp,         \* each thief's copy p of pos in pop_top
  tjob        \* the job each thief has read from its slot

deque_vars == <<pos, deq, depth, frame, queued, job_done, op, at, tpc, tp, tjob>>
owner == <<depth, frame, queued, job_done, op, at>>
thief == <<tpc, tp, tjob>>

-----------------------------------------------------------------------------
(* Counters, slots and positions. *)

Frames  == 1..MaxDepth
Counter == 0..(Modulus - 1)
Slots   == 0..(Capacity - 1)
NoJob   == 0
PosType == [head : Counter, tail : Counter]

(* A copy of pos before it is loaded and after it was last used. *)
Unread  == [head |-> 0, tail |-> 0]

Wrap(x)   == x % Modulus
Physic(x) == x % Capacity

length(p) == Physic(Wrap(p.tail - p.head))

(* The logical index push_bottom stores at, and the tail it publishes. *)
Target(p)   == IF length(p) = 0 THEN p.tail ELSE Wrap(p.tail - 1)
NextTail(p) == Wrap(p.tail + (IF length(p) = 0 THEN 2 ELSE 1))

-----------------------------------------------------------------------------
DequeInit ==
  /\ pos = Unread
  /\ deq = [s \in Slots |-> NoJob]
  /\ depth = 0
  /\ frame = [d \in Frames |-> "none"]
  /\ queued = {}
  /\ job_done = {}
  /\ op = Unread
  /\ at = [d \in Frames |-> 0]
  /\ tpc = [t \in Thieves |-> "idle"]
  /\ tp = [t \in Thieves |-> Unread]
  /\ tjob = [t \in Thieves |-> NoJob]

(* The innermost call moves on to f. *)
GoOnTo(f) == frame' = [frame EXCEPT ![depth] = f]

(***************************************************************************)
(* A new parallel_do: at the bottom of the stack or inside lf or rf, or    *)
(* inside a job stolen from another deque while a call waits.              *)
(***************************************************************************)
Fork ==
  /\ depth < MaxDepth
  /\ depth > 0 => frame[depth] \in {"left", "right", "wait"}
  /\ depth' = depth + 1
  /\ frame' = [frame EXCEPT ![depth + 1] = "load"]
  /\ UNCHANGED <<pos, deq, queued, job_done, op, at, thief>>

(* push_bottom: load pos; a full deque refuses. *)
PushLoad ==
  /\ depth > 0 /\ frame[depth] = "load"
  /\ IF length(pos) = Capacity - 1
       THEN GoOnTo("left")  /\ UNCHANGED op
       ELSE GoOnTo("store") /\ op' = pos
  /\ UNCHANGED <<pos, deq, depth, queued, job_done, at, thief>>

(* push_bottom: a slot some thief has claimed but not emptied refuses. *)
PushRefused ==
  /\ depth > 0 /\ frame[depth] = "store"
  /\ deq[Physic(Target(op))] # NoJob
  /\ op' = Unread
  /\ GoOnTo("left")
  /\ UNCHANGED <<pos, deq, depth, queued, job_done, at, thief>>

(* Bug for the mutation runs: a slot that is being emptied is overwritten. *)
PushStoreOverwriting ==
  /\ depth > 0 /\ frame[depth] = "store"
  /\ deq' = [deq EXCEPT ![Physic(Target(op))] = depth]
  /\ at' = [at EXCEPT ![depth] = Target(op)]
  /\ GoOnTo("publish")
  /\ UNCHANGED <<pos, depth, queued, job_done, op, thief>>

PushStore ==
  /\ depth > 0 /\ frame[depth] = "store"
  /\ deq[Physic(Target(op))] = NoJob
  /\ deq' = [deq EXCEPT ![Physic(Target(op))] = depth]
  /\ at' = [at EXCEPT ![depth] = Target(op)]
  /\ GoOnTo("publish")
  /\ UNCHANGED <<pos, depth, queued, job_done, op, thief>>

(* push_bottom: write the tail half of pos, computed from the old load. *)
PushPublish ==
  /\ depth > 0 /\ frame[depth] = "publish"
  /\ pos' = [pos EXCEPT !.tail = NextTail(op)]
  /\ op' = Unread
  /\ queued' = queued \cup {depth}
  /\ GoOnTo("left")
  /\ UNCHANGED <<deq, depth, job_done, at, thief>>

(* lf() returns; a job that is not in the deque is run in place. *)
LeftReturns ==
  /\ depth > 0 /\ frame[depth] = "left"
  /\ GoOnTo(IF depth \in queued THEN "join" ELSE "right")
  /\ UNCHANGED <<pos, deq, depth, queued, job_done, op, at, thief>>

(* pop_bottom: load pos; an empty deque means the job was stolen. *)
PopLoad ==
  /\ depth > 0 /\ frame[depth] = "join"
  /\ GoOnTo(IF length(pos) <= 1 THEN "wait" ELSE "sub")
  /\ UNCHANGED <<pos, deq, depth, queued, job_done, op, at, thief>>

(* Bug: the value fetch_sub returned is not tested again. *)
PopSubUntested ==
  /\ depth > 0 /\ frame[depth] = "sub"
  /\ pos' = [pos EXCEPT !.tail = Wrap(@ - 1)]
  /\ GoOnTo("clear") /\ op' = pos
  /\ UNCHANGED <<deq, depth, queued, job_done, at, thief>>

(* pop_bottom: fetch_sub on pos, whose old value decides the race. *)
PopSub ==
  /\ depth > 0 /\ frame[depth] = "sub"
  /\ pos' = [pos EXCEPT !.tail = Wrap(@ - 1)]
  /\ IF length(pos) = 1
       THEN GoOnTo("wait")  /\ UNCHANGED op
       ELSE GoOnTo("clear") /\ op' = pos
  /\ UNCHANGED <<deq, depth, queued, job_done, at, thief>>

(* pop_bottom: empty the slot; rf() then runs on the owner. *)
PopClear ==
  /\ depth > 0 /\ frame[depth] = "clear"
  /\ deq' = [deq EXCEPT ![Physic(Wrap(op.tail - 2))] = NoJob]
  /\ op' = Unread
  /\ GoOnTo("right")
  /\ UNCHANGED <<pos, depth, queued, job_done, at, thief>>

(* rf() returns on the owner. *)
RightReturns ==
  /\ depth > 0 /\ frame[depth] = "right"
  /\ GoOnTo("return")
  /\ UNCHANGED <<pos, deq, depth, queued, job_done, op, at, thief>>

(* steal_while_waiting_for sees the done flag. *)
WaitDone ==
  /\ depth > 0 /\ frame[depth] = "wait"
  /\ depth \in job_done
  /\ GoOnTo("return")
  /\ UNCHANGED <<pos, deq, depth, queued, job_done, op, at, thief>>

(* parallel_do returns and its JobImpl dies with the frame. *)
ReturnFromDo ==
  /\ depth > 0 /\ frame[depth] = "return"
  /\ depth' = depth - 1
  /\ GoOnTo("none")
  /\ queued' = queued \ {depth}
  /\ job_done' = job_done \ {depth}
  /\ at' = [at EXCEPT ![depth] = 0]
  /\ UNCHANGED <<pos, deq, op, thief>>

-----------------------------------------------------------------------------
(* pop_top: load pos; an empty deque returns at once and changes nothing. *)
TopLoad(t) ==
  /\ tpc[t] = "idle"
  /\ length(pos) > 1
  /\ tp' = [tp EXCEPT ![t] = pos]
  /\ tpc' = [tpc EXCEPT ![t] = "cas"]
  /\ UNCHANGED <<pos, deq, owner, tjob>>

(* Bug: only the head half is compared. *)
TopCasHeadOnly(t) ==
  /\ tpc[t] = "cas"
  /\ IF pos.head = tp[t].head
       THEN /\ pos' = [pos EXCEPT !.head = Wrap(@ + 1)]
            /\ tpc' = [tpc EXCEPT ![t] = "read"]
            /\ UNCHANGED tp
       ELSE /\ tpc' = [tpc EXCEPT ![t] = "idle"]
            /\ tp' = [tp EXCEPT ![t] = Unread]
            /\ UNCHANGED pos
  /\ UNCHANGED <<deq, owner, tjob>>

(* pop_top: compare_exchange of the whole word, advancing head. *)
TopCas(t) ==
  /\ tpc[t] = "cas"
  /\ IF pos = tp[t]
       THEN /\ pos' = [pos EXCEPT !.head = Wrap(@ + 1)]
            /\ tpc' = [tpc EXCEPT ![t] = "read"]
            /\ UNCHANGED tp
       ELSE /\ tpc' = [tpc EXCEPT ![t] = "idle"]
            /\ tp' = [tp EXCEPT ![t] = Unread]
            /\ UNCHANGED pos
  /\ UNCHANGED <<deq, owner, tjob>>

TopSlot(t) == Physic(tp[t].head)

TopRead(t) ==
  /\ tpc[t] = "read"
  /\ tjob' = [tjob EXCEPT ![t] = deq[TopSlot(t)]]
  /\ tpc' = [tpc EXCEPT ![t] = "clear"]
  /\ UNCHANGED <<pos, deq, owner, tp>>

(* pop_top: empty the slot; the thief then runs the job, if it got one. *)
TopClear(t) ==
  /\ tpc[t] = "clear"
  /\ deq' = [deq EXCEPT ![TopSlot(t)] = NoJob]
  /\ tp' = [tp EXCEPT ![t] = Unread]
  /\ tpc' = [tpc EXCEPT ![t] = IF tjob[t] = NoJob THEN "idle" ELSE "run"]
  /\ UNCHANGED <<pos, owner, tjob>>

(* Bug: done is not stored. *)
ExecuteSilently(t) ==
  /\ tpc[t] = "run"
  /\ tpc' = [tpc EXCEPT ![t] = "idle"]
  /\ tjob' = [tjob EXCEPT ![t] = NoJob]
  /\ UNCHANGED <<pos, deq, depth, frame, queued, job_done, op, at, tp>>

(* JobImpl::execute: f() has returned, done is stored. *)
Execute(t) ==
  /\ tpc[t] = "run"
  /\ job_done' = job_done \cup {tjob[t]}
  /\ tpc' = [tpc EXCEPT ![t] = "idle"]
  /\ tjob' = [tjob EXCEPT ![t] = NoJob]
  /\ UNCHANGED <<pos, deq, depth, frame, queued, op, at, tp>>

-----------------------------------------------------------------------------
PushBottom == PushLoad \/ PushRefused \/ PushStore \/ PushPublish
PopBottom  == PopLoad \/ PopSub \/ PopClear
ParallelDo == Fork \/ PushBottom \/ LeftReturns \/ PopBottom
                   \/ RightReturns \/ WaitDone \/ ReturnFromDo
PopTop(t)  == TopLoad(t) \/ TopCas(t) \/ TopRead(t) \/ TopClear(t)

DequeNext == ParallelDo \/ \E t \in Thieves : PopTop(t) \/ Execute(t)

DequeSpec == DequeInit /\ [][DequeNext]_deque_vars

(***************************************************************************)
(* A thief that won its compare_exchange goes on, and jobs terminate.      *)
(***************************************************************************)
DequeFairness ==
  \A t \in Thieves : WF_deque_vars(TopRead(t) \/ TopClear(t) \/ Execute(t))

DequeFairSpec == DequeSpec /\ DequeFairness

-----------------------------------------------------------------------------
FramePhases == {"none", "load", "store", "publish", "left", "join", "sub",
                "clear", "right", "wait", "return"}
ThiefPhases == {"idle", "cas", "read", "clear", "run"}

DequeTypeOK ==
  /\ pos \in PosType
  /\ deq \in [Slots -> 0..MaxDepth]
  /\ depth \in 0..MaxDepth
  /\ frame \in [Frames -> FramePhases]
  /\ queued \in SUBSET Frames
  /\ job_done \in SUBSET Frames
  /\ op \in PosType
  /\ at \in [Frames -> Counter]
  /\ tpc \in [Thieves -> ThiefPhases]
  /\ tp \in [Thieves -> PosType]
  /\ tjob \in [Thieves -> 0..MaxDepth]

(* The job thief t has taken out of the deque and not finished. *)
Claim(t) == IF tpc[t] = "read" THEN deq[TopSlot(t)]
            ELSE IF tpc[t] \in {"clear", "run"} THEN tjob[t]
            ELSE NoJob

(***************************************************************************)
(* A thief that wins the compare_exchange gets a job: never a null pointer *)
(* (scheduler.h:89 would drop a job), never one another thief also got and *)
(* never one the owner has popped or already returned from.                *)
(***************************************************************************)
StealsAreExclusive ==
  \A t \in Thieves :
    tpc[t] \in {"read", "clear", "run"} =>
      /\ Claim(t) \in 1..depth
      /\ frame[Claim(t)] \in {"left", "join", "sub", "wait"}
      /\ Claim(t) \notin job_done
      /\ \A u \in Thieves \ {t} : Claim(u) # Claim(t)

(***************************************************************************)
(* pop_bottom answers false only when some thief has the job: the owner    *)
(* never waits at scheduler.h:177 for a job nobody will run.               *)
(***************************************************************************)
WaitersAreServed ==
  \A d \in 1..depth :
    frame[d] = "wait" => d \in job_done \/ \E t \in Thieves : Claim(t) = d

(***************************************************************************)
(* No job is lost while it is queued: until it is claimed by a thief,      *)
(* finished or popped it sits in its own slot between head and tail, and   *)
(* the jobs lie there in the order of the calls that pushed them.          *)
(***************************************************************************)
Unclaimed(d) ==
  /\ d \in queued /\ frame[d] \in {"left", "join", "sub"}
  /\ d \notin job_done /\ \A t \in Thieves : Claim(t) # d

Offset(d) == Wrap(at[d] - pos.head)

QueuedJobsAreHeld ==
  /\ \A d \in 1..depth : Unclaimed(d) =>
       /\ deq[Physic(at[d])] = d
       /\ Offset(d) < length(pos) - 1
  /\ \A d, e \in 1..depth :
       d < e /\ Unclaimed(d) /\ Unclaimed(e) => Offset(d) < Offset(e)

(* A thief that took a job finishes it, so every waiting call can return. *)
JobsGetDone == \A d \in Frames : frame[d] = "wait" ~> d \in job_done

(***************************************************************************)
(* parallel_do runs rf exactly once and returns only when rf has finished. *)
(***************************************************************************)
RunnersOf(d) ==
  {t \in Thieves : tpc[t] = "run" /\ tjob[t] = d}
    \cup (IF frame[d] = "right" THEN {Owner} ELSE {})

PhaseOf(d) ==
  IF frame[d] = "none" THEN "none"
  ELSE IF frame[d] = "return" \/ d \in job_done THEN "done"
  ELSE IF RunnersOf(d) # {} THEN "running"
  ELSE "forked"

FJ == INSTANCE ForkJoin WITH
        Agents  <- Thieves \cup {Owner},
        phase   <- [d \in Frames |-> PhaseOf(d)],
        runners <- [d \in Frames |-> RunnersOf(d)]

ImplementsForkJoin == FJ!Spec

-----------------------------------------------------------------------------
(***************************************************************************)
(* The inductive invariant: what is true of the counters, of the owner's   *)
(* calls and of the thieves' claims at every step.  It implies             *)
(* StealsAreExclusive, WaitersAreServed and QueuedJobsAreHeld.             *)
(***************************************************************************)
(* The distance between the counters, before it is reduced to a slot. *)
Raw(p) == Wrap(p.tail - p.head)

(* Calls whose job is in the deque or with a thief. *)
Open(d) == d \in queued /\ frame[d] \in {"left", "join", "sub"}

(***************************************************************************)
(* At most Capacity - 2 jobs are between the counters, so length is the    *)
(* distance; a copy of pos still says what its owner relies on.            *)
(***************************************************************************)
CountersInv ==
  /\ Raw(pos) < Capacity
  /\ \A t \in Thieves : tpc[t] = "cas" => Raw(tp[t]) >= 2 /\ Raw(tp[t]) < Capacity

StackInv ==
  /\ \A d \in Frames : d > depth => frame[d] = "none" /\ d \notin queued
  /\ \A d \in Frames : d < depth => frame[d] \in {"left", "right", "wait"}
  /\ \A d \in 1..depth : frame[d] # "none"
  /\ \A d \in queued : frame[d] \notin {"load", "store", "publish"}
  /\ \A d \in Frames : frame[d] \in {"join", "sub", "clear", "wait"} => d \in queued
  /\ job_done \subseteq queued

(***************************************************************************)
(* What push_bottom relies on between its load and its store of tail:      *)
(* thieves only shorten the deque, and leave an empty one alone.           *)
(***************************************************************************)
PushInv ==
  depth > 0 /\ frame[depth] \in {"store", "publish"} =>
    /\ op.tail = pos.tail
    /\ Raw(op) <= Capacity - 2
    /\ Raw(pos) <= Raw(op)
    /\ Raw(op) = 0 => op = pos
    /\ Raw(op) # 0 => Raw(pos) # 0
    /\ frame[depth] = "publish" =>
         at[depth] = Target(op) /\ deq[Physic(Target(op))] = depth

(* What pop_bottom relies on: of its two counters' gap one unit remains. *)
PopInv ==
  /\ depth > 0 /\ frame[depth] = "sub" => Raw(pos) # 0
  /\ depth > 0 /\ frame[depth] = "clear" =>
       /\ deq[Physic(Wrap(op.tail - 2))] = depth
       /\ \A t \in Thieves : Claim(t) # depth
       /\ depth \notin job_done

(***************************************************************************)
(* The unclaimed jobs are exactly the window between head and tail, in the *)
(* order of their calls, and thieves have taken the oldest calls first.    *)
(***************************************************************************)
WindowInv ==
  /\ \A d \in Frames : Unclaimed(d) =>
       deq[Physic(at[d])] = d /\ Offset(d) + 2 <= Raw(pos)
  /\ \A k \in Counter : k + 2 <= Raw(pos) =>
       \E d \in Frames : Unclaimed(d) /\ Offset(d) = k
  /\ \A d, e \in Frames : d < e /\ Unclaimed(d) /\ Unclaimed(e) =>
       Offset(d) < Offset(e)
  /\ \A d, e \in Frames : d < e /\ Unclaimed(d) /\ Open(e) => Unclaimed(e)

ClaimsInv ==
  \A t \in Thieves :
    tpc[t] \in {"read", "clear", "run"} =>
      /\ Claim(t) \in queued \ job_done
      /\ frame[Claim(t)] \in {"left", "join", "sub", "wait"}
      /\ tpc[t] # "run" => deq[TopSlot(t)] = Claim(t)
      /\ \A u \in Thieves \ {t} : Claim(u) # Claim(t)

DequeInvariant ==
  /\ DequeTypeOK
  /\ CountersInv
  /\ StackInv
  /\ PushInv
  /\ PopInv
  /\ WindowInv
  /\ ClaimsInv
  /\ WaitersAreServed

(***************************************************************************)
(* Inductive relative to DequeInvariant: the owner runs a right-hand       *)
(* function only where no thief has run it.                                *)
(***************************************************************************)
RightInv ==
  /\ \A d \in Frames : frame[d] = "right" => d \notin job_done
  /\ \A d \in job_done : frame[d] \in {"left", "join", "sub", "wait", "return"}

=============================================================================
