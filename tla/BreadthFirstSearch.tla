-------------------------- MODULE BreadthFirstSearch --------------------------
(***************************************************************************)
(* breadth_first_search of breadth_first_search.h: distances only.  Those  *)
(* of a round are written when it takes its frontier, or by local searches. *)
(***************************************************************************)
EXTENDS BreadthFirst

VARIABLE dist

search_vars == <<control, dist>>

SearchInit == Begin("search", 0) /\ dist = [v \in Vertices |-> Unreached]

DistOf(S) == [v \in Vertices |-> IF v \in S THEN round ELSE dist[v]]

(* Mode 0: the frontier has many edges, the next rounds go bottom up. *)
ToBottomUp ==
  /\ phase = "top" /\ mode = 0 /\ next_frontier # {}
  /\ dist' = DistOf(next_frontier)
  /\ next_frontier' = {} /\ mode' = 1 /\ round' = round + 1
  /\ UNCHANGED <<program, active, frontier, stride, phase, work, pending, job, graph>>

(* Mode 0: the search is long, this round is done again in mode 5. *)
ToSearch ==
  /\ phase = "top" /\ mode = 0 /\ next_frontier # {} /\ round >= LongAfter
  /\ dist' = DistOf(next_frontier) /\ mode' = 5
  /\ UNCHANGED <<program, active, frontier, next_frontier, stride, round, phase, work, pending,
                 job, graph>>

(* Mode 1. With few vertices found mode 0 takes over, in the same round. *)
BottomUp ==
  /\ phase = "top" /\ mode = 1
  /\ IF FoundNow = {}
       THEN phase' = "ended" /\ UNCHANGED <<active, next_frontier, dist, mode, round>>
       ELSE /\ active' = active \ FoundNow
            /\ \/ /\ next_frontier' = FoundNow /\ mode' = 0
                  /\ UNCHANGED <<dist, round>>
               \/ /\ dist' = DistOf(FoundNow) /\ round' = round + 1
                  /\ UNCHANGED <<next_frontier, mode>>
            /\ UNCHANGED phase
  /\ UNCHANGED <<program, frontier, stride, work, pending, job, graph>>

Nearer(value, d) == IF d < value THEN d ELSE value

(* write_min(dist[s], dist_s). *)
LowerOwn(t) ==
  Lower(t) /\ dist' = [dist EXCEPT ![job[t].s] = Nearer(@, DistFrom(job[t].value))]

(* active.contains(d), and if so d is claimed, maybe by several tasks. *)
LookUp(t, e) == Look(t, e, e[2] \in active) /\ UNCHANGED dist

PullDist(t, e) ==
  Pull(t, e, Nearer(job[t].value, dist[e[1]]), job[t].parent) /\ UNCHANGED dist

PushDist(t, e) ==
  LET d == e[2]
  IN  /\ Push(t, e, job[t].value + 1 < dist[d])
      /\ dist' = [dist EXCEPT ![d] = Nearer(@, job[t].value + 1)]

SearchNext ==
  /\ program = "search"
  /\ \/ ToBottomUp \/ ToSearch \/ BottomUp
     \/ (Break \/ TopDown \/ Pushed \/ Search \/ Searched \/ Stop) /\ UNCHANGED dist
     \/ \E s \in frontier :
          \/ Take(s) /\ dist' = DistOf({s})
          \/ Consume(s, dist[s]) /\ UNCHANGED dist
     \/ \E t \in Tasks :
          \/ (Claim(t) \/ EndJob(t)) /\ UNCHANGED dist
          \/ LowerOwn(t)
          \/ \E s \in Vertices : PopTop(t, s) /\ UNCHANGED dist
          \/ \E e \in graph : LookUp(t, e) \/ PullDist(t, e) \/ PushDist(t, e)

SearchSpec == SearchInit /\ [][SearchNext]_search_vars

-----------------------------------------------------------------------------
(* Types; distances fit. *)
SearchTypeOK ==
  ControlTypeOK /\ dist \in [Vertices -> 0..Cardinality(Vertices) \cup {Unreached}]

(***************************************************************************)
(* At the top of the loop everything before the round is settled, nothing  *)
(* after it is touched, and what the mode goes on from is exactly the      *)
(* round: the frontier in mode 0, the inactive vertices in mode 1, and in  *)
(* mode 5 those of the frontier that are not passed over.                  *)
(***************************************************************************)
RoundsAreExact ==
  phase = "top" =>
    LET hops    == Hops
        At(r)   == {v \in Vertices : hops[v] = r /\ r # Unreached}
        settled == IF mode >= 5 THEN round ELSE round - 1
    IN  /\ \A v \in Vertices : dist[v] = IF hops[v] <= settled THEN hops[v] ELSE Unreached
        /\ mode = 0 => /\ next_frontier = At(round)
                       /\ active = {v \in Vertices : hops[v] > round}
        /\ mode = 1 => active = {v \in Vertices : hops[v] >= round}
        /\ mode >= 5 => {v \in next_frontier : dist[v] = round} = At(round)

(***************************************************************************)
(* Local searches run ahead of each other, but no distance is ever too     *)
(* short, and none passes the window; so whatever is at its end is in the  *)
(* next frontier.                                                          *)
(***************************************************************************)
SearchStaysInWindow ==
  LET hops == Hops
  IN  /\ \A v \in Vertices : dist[v] >= hops[v]
      /\ phase = "search" =>
           \A v \in Vertices : dist[v] # Unreached =>
             dist[v] <= WindowEnd /\ (dist[v] = WindowEnd => v \in next_frontier)

(* The search ends with the exact distances, whichever modes it went through. *)
FindsDistances == phase = "ended" => dist = Hops

(***************************************************************************)
(* Of breadth_first_search: rounds and windows stay exact on the way, and  *)
(* it ends with exact distances.                                           *)
(***************************************************************************)
SearchInvariant ==
  program = "search" =>
    /\ SearchTypeOK
    /\ RoundsAreExact
    /\ SearchStaysInWindow
    /\ FindsDistances

=============================================================================
