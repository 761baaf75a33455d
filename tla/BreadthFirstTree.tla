--------------------------- MODULE BreadthFirstTree ---------------------------
(***************************************************************************)
(* breadth_first_search_tree of breadth_first_search.h.  The distance and  *)
(* the parent of a vertex are kept in one word, the distance in its upper  *)
(* half, and the word is lowered as a whole: also a smaller parent at the  *)
(* same distance claims a vertex or searches from it again.  Vertices get  *)
(* their words when they are found, so the frontier is one round behind.   *)
(***************************************************************************)
EXTENDS BreadthFirst

VARIABLE dist_and_parent

tree_vars == <<control, dist_and_parent>>

(* glue32 and hi32: words are pairs, ordered by the first, then the second. *)
Blank == <<Unreached, Unreached>>

Dist(v) == dist_and_parent[v][1]
Parent(v) == dist_and_parent[v][2]

IsLower(a, b) == a[1] < b[1] \/ (a[1] = b[1] /\ a[2] < b[2])

(* Bug for the mutation runs: the last word wins. *)
Latest(a, b) == b

Lowest(a, b) == IF IsLower(b, a) THEN b ELSE a

TreeInit ==
  /\ Begin("tree", 1)
  /\ dist_and_parent = [v \in Vertices |-> IF v = source THEN <<0, Unreached>> ELSE Blank]

(* Mode 0: this round is done again in another mode. *)
TreeToBottomUp ==
  /\ phase = "top" /\ mode = 0 /\ next_frontier # {}
  /\ next_frontier' = {} /\ mode' = 1
  /\ UNCHANGED <<program, active, frontier, dist_and_parent, stride, round, phase, work,
                 pending, job, graph>>

(* Bug: the round is not that of the frontier. *)
SearchFromRound == round

SearchFrom == round - 1

TreeToSearch ==
  /\ phase = "top" /\ mode = 0 /\ next_frontier # {} /\ round >= LongAfter
  /\ mode' = 5 /\ round' = SearchFrom
  /\ UNCHANGED <<program, active, frontier, next_frontier, dist_and_parent, stride, phase, work,
                 pending, job, graph>>

(* write_min; whoever lowered the word claims d, again if it was a parent. *)
Offer(t, e) ==
  LET d    == e[2]
      word == <<round, e[1]>>
  IN  /\ Look(t, e, IsLower(word, dist_and_parent[d]))
      /\ dist_and_parent' = [dist_and_parent EXCEPT ![d] = Lowest(@, word)]

(* Mode 1: the parent is the first neighbour, in the order of the edges,   *)
(* that is not active.                                                      *)
TreeBottomUp ==
  /\ phase = "top" /\ mode = 1
  /\ \E parent \in [FoundNow -> Vertices] :
       /\ \A s \in FoundNow : parent[s] \in FoundBy(s)
       /\ dist_and_parent' = [v \in Vertices |-> IF v \in FoundNow THEN <<round, parent[v]>>
                                                                   ELSE dist_and_parent[v]]
  /\ IF FoundNow = {}
       THEN phase' = "ended" /\ UNCHANGED <<active, next_frontier, mode, round>>
       ELSE /\ active' = active \ FoundNow /\ round' = round + 1
            /\ \/ next_frontier' = FoundNow /\ mode' = 0
               \/ UNCHANGED <<next_frontier, mode>>
            /\ UNCHANGED phase
  /\ UNCHANGED <<program, frontier, stride, work, pending, job, graph>>

(* The nearest neighbour, the smallest of several. *)
PullWord(t, e) ==
  LET nearest == Lowest(<<job[t].value, job[t].parent>>, <<Dist(e[1]), e[1]>>)
  IN  Pull(t, e, nearest[1], nearest[2]) /\ UNCHANGED dist_and_parent

LowerFromParent(t) ==
  LET word == <<DistFrom(job[t].value), job[t].parent>>
  IN  /\ Lower(t)
      /\ dist_and_parent' = [dist_and_parent EXCEPT ![job[t].s] = Lowest(@, word)]

PushWord(t, e) ==
  LET d    == e[2]
      word == <<job[t].value + 1, job[t].s>>
  IN  /\ Push(t, e, IsLower(word, dist_and_parent[d]))
      /\ dist_and_parent' = [dist_and_parent EXCEPT ![d] = Lowest(@, word)]

TreeNext ==
  /\ program = "tree"
  /\ \/ TreeToBottomUp \/ TreeToSearch \/ TreeBottomUp
     \/ (Break \/ TopDown \/ Pushed \/ Search \/ Searched \/ Stop) /\ UNCHANGED dist_and_parent
     \/ \E s \in frontier : (Take(s) \/ Consume(s, Dist(s))) /\ UNCHANGED dist_and_parent
     \/ \E t \in Tasks :
          \/ (Claim(t) \/ EndJob(t)) /\ UNCHANGED dist_and_parent
          \/ LowerFromParent(t)
          \/ \E s \in Vertices : PopTop(t, s) /\ UNCHANGED dist_and_parent
          \/ \E e \in graph : Offer(t, e) \/ PullWord(t, e) \/ PushWord(t, e)

TreeSpec == TreeInit /\ [][TreeNext]_tree_vars

-----------------------------------------------------------------------------
(* Words are those of edges or blank; distances fit. *)
TreeTypeOK ==
  /\ ControlTypeOK
  /\ dist_and_parent[source] = <<0, Unreached>>
  /\ \A v \in Vertices \ {source} :
       dist_and_parent[v] = Blank \/ (Dist(v) \in 1..Cardinality(Vertices)
                                        /\ <<Parent(v), v>> \in graph)

(* At the top of the loop everything before the round is settled, nothing   *)
(* after it is touched, and what the mode goes on from is exactly the round. *)
TreeRoundsAreExact ==
  phase = "top" =>
    LET hops    == Hops
        At(r)   == {v \in Vertices : hops[v] = r /\ r # Unreached}
        settled == IF mode >= 5 THEN round ELSE round - 1
    IN  /\ \A v \in Vertices : Dist(v) = IF hops[v] <= settled THEN hops[v] ELSE Unreached
        /\ mode = 0 => next_frontier = At(round - 1)
        /\ mode < 5 => active = {v \in Vertices : hops[v] >= round}
        /\ mode >= 5 => {v \in next_frontier : Dist(v) = round} = At(round)

(***************************************************************************)
(* The parents lead to the source at any time, also while local searches   *)
(* replace distances and parents that others have just read: each is       *)
(* strictly closer, so they never close a cycle.                           *)
(***************************************************************************)
ParentsAreCloser ==
  \A v \in Vertices \ {source} : Dist(v) # Unreached => Dist(Parent(v)) < Dist(v)

(* Of breadth_first_search_tree: rounds stay exact on the way, and what     *)
(* there is of the tree is one at any time.                                 *)
TreeInvariant ==
  program = "tree" => TreeTypeOK /\ TreeRoundsAreExact /\ ParentsAreCloser

(* It ends with exact distances, and parents one edge closer to the source, *)
(* whichever modes it went through.                                         *)
FindsTree ==
  program = "tree" /\ phase = "ended" =>
    LET hops == Hops
    IN  /\ \A v \in Vertices : Dist(v) = hops[v]
        /\ \A v \in Vertices \ {source} :
             Dist(v) # Unreached => <<Parent(v), v>> \in graph /\ Dist(v) = Dist(Parent(v)) + 1

=============================================================================
