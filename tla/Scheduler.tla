------------------------------ MODULE Scheduler ------------------------------
(***************************************************************************)
(* All the workers of scheduler.h running one parallel_for(0, N, f, G):    *)
(* the call splits its range in two with parallel_do until a range has at  *)
(* most G indices, pushes the right half on the worker's own deque, runs   *)
(* the left half, and then pops the right half back or, if a thief has it, *)
(* steals other work until the thief is done.                              *)
(*                                                                         *)
(* Module Deque shows that the deques behave as queues from which each job *)
(* is taken once; here a deque is the sequence of its unclaimed jobs, the  *)
(* bottom last.  A call splits each range once, so a range names its job.  *)
(***************************************************************************)
EXTENDS Integers, Sequences

CONSTANTS
  MaxThreads,    \* largest value of TOGGLE_NUM_WORKERS
  N,             \* the loop runs over 0 .. N - 1
  Granularity,   \* ranges of at most this size are run in place
  Room           \* jobs a deque can hold (Capacity - 2)

ASSUME SchedulerAssumption ==
  /\ MaxThreads \in Nat \ {0} /\ N \in Nat
  /\ Granularity \in Nat \ {0} /\ Room \in Nat \ {0}

VARIABLES
  num_threads,   \* Scheduler::num_threads, read from the environment
  stack,         \* the calls on each worker's stack, innermost last
  deques,        \* the unclaimed jobs of each worker
  done,          \* ranges whose JobImpl::done flag is set
  ran            \* how often f ran on each index

vars == <<num_threads, stack, deques, done, ran>>

-----------------------------------------------------------------------------
Indices == 0..(N - 1)
Ranges  == [lo : 0..N, hi : 0..N]
Workers == 0..(num_threads - 1)

(***************************************************************************)
(* A parallel_for call on range r.  in_deque is what push_bottom answered, *)
(* next the index the serial loop is at, and stolen tells that the call    *)
(* was made by JobImpl::execute on a thief.                                *)
(***************************************************************************)
Places == {"enter", "left", "right", "wait", "steal"}
Frame  == [r : Ranges, at : Places, in_deque : BOOLEAN, next : 0..N, stolen : BOOLEAN]

Call(r, s) == [r |-> r, at |-> "enter", in_deque |-> FALSE, next |-> r.lo, stolen |-> s]

Size(r)  == r.hi - r.lo
Mid(r)   == r.lo + (r.hi - r.lo) \div 2
Left(r)  == [lo |-> r.lo, hi |-> Mid(r)]

Right(r) == [lo |-> Mid(r), hi |-> r.hi]

Busy(w) == stack[w] # <<>>
Top(w)  == stack[w][Len(stack[w])]
Under(w) == SubSeq(stack[w], 1, Len(stack[w]) - 1)

Init ==
  /\ num_threads \in 1..MaxThreads
  /\ stack = [w \in Workers |->
       IF w = 0 THEN <<Call([lo |-> 0, hi |-> N], FALSE)>> ELSE <<>>]
  /\ deques = [w \in Workers |-> <<>>]
  /\ done = {}
  /\ ran = [i \in Indices |-> 0]

(* The innermost call of w becomes c and, if r is a range, calls r in turn. *)
Becomes(w, c)    == stack' = [stack EXCEPT ![w] = Append(Under(w), c)]
Calls(w, c, r)   == stack' = [stack EXCEPT ![w] = Append(Append(Under(w), c), Call(r, FALSE))]

-----------------------------------------------------------------------------

(* A range of at most Granularity indices: f(i) for the next one. *)
RunIndex(w) ==
  /\ Busy(w) /\ Top(w).at = "enter"
  /\ Size(Top(w).r) <= Granularity
  /\ Top(w).next < Top(w).r.hi
  /\ ran' = [ran EXCEPT ![Top(w).next] = @ + 1]
  /\ Becomes(w, [Top(w) EXCEPT !.next = @ + 1])
  /\ UNCHANGED <<num_threads, deques, done>>

(***************************************************************************)
(* parallel_do: push_bottom, then lf().  A full deque refuses the job, and *)
(* so does a slot another thread has not yet emptied.                      *)
(***************************************************************************)
Split(w) ==
  /\ Busy(w) /\ Top(w).at = "enter"
  /\ Size(Top(w).r) > Granularity
  /\ \E in_deque \in BOOLEAN :
       /\ in_deque => Len(deques[w]) < Room
       /\ ~ in_deque => Len(deques[w]) = Room \/ num_threads > 1
       /\ deques' = IF in_deque
                      THEN [deques EXCEPT ![w] = Append(@, Right(Top(w).r))]
                      ELSE deques
       /\ Calls(w, [Top(w) EXCEPT !.at = "left", !.in_deque = in_deque],
                Left(Top(w).r))
  /\ UNCHANGED <<num_threads, done, ran>>

(* Bug for the mutation runs: pop_bottom takes a single job for none. *)
JoinOneLess(w) ==
  /\ Busy(w) /\ Top(w).at = "left"
  /\ IF Top(w).in_deque /\ Len(deques[w]) <= 1
       THEN /\ Becomes(w, [Top(w) EXCEPT !.at = "wait"])
            /\ UNCHANGED deques
       ELSE /\ Calls(w, [Top(w) EXCEPT !.at = "right"], Right(Top(w).r))
            /\ deques' = IF Top(w).in_deque
                           THEN [deques EXCEPT ![w] = SubSeq(@, 1, Len(@) - 1)]
                           ELSE deques
  /\ UNCHANGED <<num_threads, done, ran>>

(***************************************************************************)
(* lf() has returned.  A job that was refused, or that pop_bottom got      *)
(* back, runs here; otherwise a thief has it.                              *)
(***************************************************************************)
Join(w) ==
  /\ Busy(w) /\ Top(w).at = "left"
  /\ IF Top(w).in_deque /\ deques[w] = <<>>
       THEN /\ Becomes(w, [Top(w) EXCEPT !.at = "wait"])
            /\ UNCHANGED deques
       ELSE /\ Calls(w, [Top(w) EXCEPT !.at = "right"], Right(Top(w).r))
            /\ deques' = IF Top(w).in_deque
                           THEN [deques EXCEPT ![w] = SubSeq(@, 1, Len(@) - 1)]
                           ELSE deques
  /\ UNCHANGED <<num_threads, done, ran>>

(* Bug: the call does not wait for the thief. *)
FinishedEarly(c) ==
  \/ c.at = "enter" /\ Size(c.r) <= Granularity /\ c.next >= c.r.hi
  \/ c.at \in {"right", "wait"}

(* The call on c.r has done all it has to do. *)
Finished(c) ==
  \/ c.at = "enter" /\ Size(c.r) <= Granularity /\ c.next >= c.r.hi
  \/ c.at = "right"
  \/ c.at = "wait" /\ Right(c.r) \in done

(* The innermost call returns; execute then stores done. *)
Return(w) ==
  /\ Busy(w) /\ Finished(Top(w))
  /\ stack' = [stack EXCEPT ![w] = Under(w)]
  /\ done' = IF Top(w).stolen THEN done \cup {Top(w).r} ELSE done
  /\ UNCHANGED <<num_threads, deques, ran>>

(* steal_while_waiting_for: done is not yet set, so the dice is rolled. *)
Poll(w) ==
  /\ Busy(w) /\ Top(w).at = "wait"
  /\ Right(Top(w).r) \notin done
  /\ Becomes(w, [Top(w) EXCEPT !.at = "steal"])
  /\ UNCHANGED <<num_threads, deques, done, ran>>

(* pop_top on the deque of a victim other than w; what is found is run. *)
Victims(w) == Workers \ {w}

StealWaiting(w) ==
  /\ Busy(w) /\ Top(w).at = "steal"
  /\ \E v \in Victims(w) :
       IF deques[v] = <<>>
         THEN /\ Becomes(w, [Top(w) EXCEPT !.at = "wait"])
              /\ UNCHANGED deques
         ELSE /\ stack' = [stack EXCEPT ![w] =
                   Under(w) \o <<[Top(w) EXCEPT !.at = "wait"],
                                 Call(Head(deques[v]), TRUE)>>]
              /\ deques' = [deques EXCEPT ![v] = Tail(@)]
  /\ UNCHANGED <<num_threads, done, ran>>

(* Bug: thieves take the newest job instead of the oldest. *)
StealIdleNewest(w) ==
  /\ w # 0 /\ ~ Busy(w)
  /\ \E v \in Victims(w) :
       /\ deques[v] # <<>>
       /\ stack' = [stack EXCEPT ![w] = <<Call(deques[v][Len(deques[v])], TRUE)>>]
       /\ deques' = [deques EXCEPT ![v] = SubSeq(@, 1, Len(@) - 1)]
  /\ UNCHANGED <<num_threads, done, ran>>

(* The loop of a spawned thread finds a job. *)
StealIdle(w) ==
  /\ w # 0 /\ ~ Busy(w)
  /\ \E v \in Victims(w) :
       /\ deques[v] # <<>>
       /\ stack' = [stack EXCEPT ![w] = <<Call(Head(deques[v]), TRUE)>>]
       /\ deques' = [deques EXCEPT ![v] = Tail(@)]
  /\ UNCHANGED <<num_threads, done, ran>>

-----------------------------------------------------------------------------
(* What a worker inside a call does next, whatever the others do. *)
Advance(w) ==
  \/ RunIndex(w)
  \/ Split(w)
  \/ Join(w)
  \/ Return(w)
  \/ Poll(w)
  \/ StealWaiting(w)

(* The outermost parallel_for has returned to its caller. *)
Completed == ~ Busy(0)

Idle == Completed /\ UNCHANGED vars

Next == Idle \/ \E w \in Workers : Advance(w) \/ StealIdle(w)

Spec == Init /\ [][Next]_vars

(***************************************************************************)
(* A running thread goes on.  Nothing is assumed of idle threads, nor of   *)
(* the victims the dice names.                                             *)
(***************************************************************************)
FairSpec == Spec /\ \A w \in 0..(MaxThreads - 1) :
                      WF_vars(w \in Workers /\ Advance(w))

-----------------------------------------------------------------------------
TypeOK ==
  /\ num_threads \in 1..MaxThreads
  /\ stack \in [Workers -> Seq(Frame)]
  /\ deques \in [Workers -> Seq(Ranges)]
  /\ done \subseteq Ranges
  /\ ran \in [Indices -> Nat]

(***************************************************************************)
(* A call returns only after f has run on every index of its range, also   *)
(* on those that thieves took, directly or from each other: the caller may *)
(* use all the results.                                                    *)
(***************************************************************************)
Covered(r, count) == \A i \in r.lo .. (r.hi - 1) : count[i] = 1

ReturnsAfterItsRange ==
  [][\A w \in Workers :
       Len(stack'[w]) < Len(stack[w]) => Covered(Top(w).r, ran')]_vars

(***************************************************************************)
(* pop_bottom says only whether it got a job, and parallel_do takes it for *)
(* the one it pushed: whatever the calls in between have pushed, stolen    *)
(* and popped on the same deque, the bottom job is its own.                *)
(***************************************************************************)
PopsItsOwnJob ==
  \A w \in Workers :
    Busy(w) /\ Top(w).at = "left" /\ Top(w).in_deque /\ deques[w] # <<>> =>
      deques[w][Len(deques[w])] = Right(Top(w).r)

(***************************************************************************)
(* A JobImpl lives on the stack of the call that pushed it.  As long as a  *)
(* deque or a thief refers to it, that call is there and is waiting for it *)
(* or has not yet looked.                                                  *)
(***************************************************************************)
Forked(w) ==
  {Right(stack[w][k].r) : k \in {j \in DOMAIN stack[w] :
     stack[w][j].in_deque /\ stack[w][j].at \in {"left", "wait", "steal"}}}

JobsOutlived ==
  \A w \in Workers :
    /\ \A k \in DOMAIN deques[w] : deques[w][k] \in Forked(w) \ done
    /\ \A k \in DOMAIN stack[w] : stack[w][k].stolen =>
         /\ stack[w][k].r \notin done
         /\ \E v \in Workers : stack[w][k].r \in Forked(v)

(***************************************************************************)
(* With one thread there is no other deque: roll_dice would take the       *)
(* remainder by num_threads - 1 = 0.  Nor is anything done by a thief.     *)
(***************************************************************************)
LoneWorkerNeverRolls ==
  num_threads = 1 =>
    /\ done = {}
    /\ \A k \in DOMAIN stack[0] : stack[0][k].at \notin {"wait", "steal"} /\ ~ stack[0][k].stolen

(***************************************************************************)
(* Why that is so.  The indices that nobody has run yet are shared out:    *)
(* each belongs to one call, which will run it or hand it on, or to one    *)
(* job in a deque, and to the calls that those came from.                  *)
(***************************************************************************)
Span(r) == r.lo .. (r.hi - 1)

Own(c) ==
  IF c.at = "enter" THEN c.next .. (c.r.hi - 1)
  ELSE IF c.at = "left" /\ ~ c.in_deque THEN Span(Right(c.r))
  ELSE {}

GaveAway(c, part) ==
  \/ part \cap Span(c.r) = {}
  \/ c.at # "enter" /\ part \subseteq Span(Left(c.r))
  \/ c.at # "enter" /\ (c.at = "left" => c.in_deque) /\ part \subseteq Span(Right(c.r))

CallsAreApart ==
  \A w, v \in Workers : \A k \in DOMAIN stack[w], l \in DOMAIN stack[v] :
    <<w, k>> # <<v, l>> => GaveAway(stack[v][l], Own(stack[w][k]))

CallsGaveJobsAway ==
  \A w, v \in Workers : \A d \in DOMAIN deques[w], l \in DOMAIN stack[v] :
    GaveAway(stack[v][l], Span(deques[w][d]))

JobsAreApart ==
  \A w, v \in Workers : \A d \in DOMAIN deques[w], e \in DOMAIN deques[v] :
    <<w, d>> # <<v, e>> => Span(deques[w][d]) \cap Span(deques[v][e]) = {}

OwnersAreApart == CallsAreApart /\ CallsGaveJobsAway /\ JobsAreApart

(* How far a call is, and that those further out called half of their range. *)
HasItsPlace(c) ==
  /\ c.r.lo <= c.next /\ c.next <= c.r.hi
  /\ c.at = "enter" /\ Size(c.r) > Granularity => c.next = c.r.lo
  /\ c.at # "enter" => Size(c.r) > Granularity

CallsAreNested ==
  \A w \in Workers : \A k \in DOMAIN stack[w] :
    LET c == stack[w][k]
    IN  /\ HasItsPlace(c)
        /\ c.at \in {"enter", "steal"} => k = Len(stack[w])
        /\ k < Len(stack[w]) =>
             /\ c.at = "left" => stack[w][k + 1].r = Left(c.r)
             /\ c.at = "right" => stack[w][k + 1].r = Right(c.r)

(* f has run once on all that is behind a call or a thief, never yet on the rest. *)
RanSoFar(c, innermost, count) ==
  /\ c.at = "enter" => \A i \in c.r.lo .. (c.next - 1) : count[i] = 1
  /\ c.at \in {"right", "wait", "steal"} \/ (c.at = "left" /\ innermost) => Covered(Left(c.r), count)
  /\ c.at = "right" /\ innermost => Covered(Right(c.r), count)
  /\ \A i \in Own(c) : count[i] = 0

RanOnce ==
  /\ \A w \in Workers : \A k \in DOMAIN stack[w] :
       RanSoFar(stack[w][k], k = Len(stack[w]), ran)
  /\ \A w \in Workers : \A d \in DOMAIN deques[w] : \A i \in Span(deques[w][d]) : ran[i] = 0
  /\ \A r \in done : Covered(r, ran)

(***************************************************************************)
(* A deque holds the jobs of the innermost calls that pushed one, in the   *)
(* order of those calls.                                                   *)
(***************************************************************************)
Pushed(c) == c.at = "left" /\ c.in_deque

JobsInOrder ==
  \A w \in Workers : \A d \in DOMAIN deques[w] :
    \E k \in DOMAIN stack[w] :
      /\ Pushed(stack[w][k]) /\ deques[w][d] = Right(stack[w][k].r)
      /\ \A l \in (k + 1) .. Len(stack[w]) : Pushed(stack[w][l]) =>
           \E e \in (d + 1) .. Len(deques[w]) : deques[w][e] = Right(stack[w][l].r)

(* No two calls fork the same job, and no two thieves run the same one. *)
JobsDiffer ==
  \A w, v \in Workers : \A k \in DOMAIN stack[w], l \in DOMAIN stack[v] :
    LET c == stack[w][k]
        d == stack[v][l]
    IN  <<w, k>> # <<v, l>> =>
          /\ c.at # "enter" /\ d.at # "enter" => Right(c.r) # Right(d.r)
          /\ c.stolen /\ d.stolen => c.r # d.r

(* A job that was pushed and not popped is in the deque, with a thief, or done. *)
JobsAreKept ==
  \A w \in Workers : \A r \in Forked(w) :
    \/ r \in done
    \/ \E d \in DOMAIN deques[w] : deques[w][d] = r
    \/ \E v \in Workers \ {w} : \E k \in DOMAIN stack[v] : stack[v][k].stolen /\ stack[v][k].r = r

(***************************************************************************)
(* What ties the stacks of the workers to the deques, at every step.       *)
(***************************************************************************)
SchedulerInvariant ==
  /\ TypeOK
  /\ OwnersAreApart
  /\ CallsAreNested
  /\ RanOnce
  /\ JobsInOrder
  /\ JobsDiffer
  /\ JobsAreKept
  /\ PopsItsOwnJob
  /\ JobsOutlived
  /\ LoneWorkerNeverRolls

(***************************************************************************)
(* Threads that wait for each other while running each other's jobs never  *)
(* all wait: the parallel_for returns.                                     *)
(***************************************************************************)
Completes == <>Completed

=============================================================================
