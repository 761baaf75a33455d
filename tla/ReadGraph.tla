------------------------------ MODULE ReadGraph ------------------------------
(***************************************************************************)
(* read_graph of graph_io.h: the rows of a CSR graph from a file, its      *)
(* in-edges or, for a symmetrized graph, both directions of every edge,    *)
(* with every row in order of its targets; then make_random_weight.        *)
(*                                                                         *)
(* sample_sort and pack are taken for what SampleSort and Pack show of     *)
(* them.  Of the orders a sort may give to parallel edges it is the one by *)
(* weight.  The tasks that fill in the offsets of empty rows read what     *)
(* others are filling in: each of their reads is a step.                   *)
(***************************************************************************)
EXTENDS Blocks, SequencesExt

CONSTANTS
  Files,        \* records of weighted and rows, sequences of <<target, weight>>
  Weightings,   \* values of the weights of make_random_weight, by the two ends
  copies,       \* of shared_sum, 16 in the code
  block,        \* of shared_sum, 4096 in the code
  num_workers

VARIABLES
  file,
  symmetrized, weighted,    \* the parameters of CSR
  G,                        \* offsets and edges, by side; an edge is <<weight, target>>
  filling,                  \* the side whose offsets are being filled in
  cursor                    \* where each task of this has got to

vars == <<file, symmetrized, weighted, G, filling, cursor, pass, todo>>

n == Len(file.rows)
Numbers == 0..(n - 1)
m(side) == Len(G[side].edges)

(* Edges count from 1 here, but offsets from 0. *)
Row(side, u) == SubSeq(G[side].edges, G[side].offsets[u] + 1, G[side].offsets[u + 1])

-----------------------------------------------------------------------------
(* The words of a file, and its length; weighted words are <<target, weight>>, *)
(* with the weight in the low half.                                            *)
Header(vertices, edges, bytes) == 24 + (vertices + 1) * 8 + edges * bytes

Offsets(rows) ==
  PrefixSums(Plus, 0, [u \in 0..(Len(rows) - 1) |-> Len(rows[u + 1])], Len(rows))

Stored(with_weights, rows) ==
  [offsets |-> Offsets(rows),
   words   |-> FlattenSeq([u \in DOMAIN rows |->
                  [i \in DOMAIN rows[u] |-> IF with_weights THEN rows[u][i] ELSE rows[u][i][1]]]),
   length  |-> Header(Len(rows), Offsets(rows)[Len(rows)], IF with_weights THEN 8 ELSE 4)]

(* fill_edges_from_file: the halves change places. An edge without weight   *)
(* counts as 1, which is what the accessors of CSR say.                     *)
Parsed(stored) ==
  LET vertices      == Cardinality(DOMAIN stored.offsets) - 1
      file_weighted == stored.length = Header(vertices, Len(stored.words), 8)
  IN  [i \in DOMAIN stored.words |->
         LET word == stored.words[i]
         IN  IF file_weighted THEN <<IF weighted THEN word[2] ELSE 1, word[1]>>
                              ELSE <<1, word>>]

(* write_graph. *)
Written(graph) ==
  [offsets |-> graph.offsets,
   words   |-> [i \in DOMAIN graph.edges |->
                  IF weighted THEN <<graph.edges[i][2], graph.edges[i][1]>> ELSE graph.edges[i][2]],
   length  |-> Header(n, Len(graph.edges), IF weighted THEN 8 ELSE 4)]

NoArrays == [offsets |-> <<>>, edges |-> <<>>]

Init ==
  /\ file \in Files /\ symmetrized \in BOOLEAN /\ weighted \in BOOLEAN
  /\ LET stored == Stored(file.weighted, file.rows)
     IN  G = [side \in {"out", "in"} |->
                IF side = "out" THEN [offsets |-> stored.offsets, edges |-> Parsed(stored)] ELSE NoArrays]
  /\ filling = "out" /\ cursor = <<>>
  /\ pass = "read" /\ todo = {}

-----------------------------------------------------------------------------
(* All edges of a side as <<source, target, weight>>, row by row. *)
EdgeList(side) ==
  FlattenSeq([j \in 1..n |-> [i \in DOMAIN Row(side, j - 1) |->
    <<j - 1, Row(side, j - 1)[i][2], Row(side, j - 1)[i][1]>>]])

Back(list) == [i \in DOMAIN list |-> <<list[i][2], list[i][1], list[i][3]>>]
Ends(list) == [i \in DOMAIN list |-> <<list[i][1], list[i][2]>>]

(* The hashes of the edges, less those of the edges back, add up to 0. Only *)
(* the ends are hashed; that the 64-bit sum is 0 by chance is left out.     *)
is_file_symmetrized ==
  ToBag(Ends(EdgeList("out"))) = ToBag(Ends(Back(EdgeList("out"))))

(***************************************************************************)
(* The arrays of a sorted list: the first edge of each row gives its       *)
(* offset, all others are left at the number of edges.                     *)
(***************************************************************************)
Grouped(list) ==
  [offsets |-> [u \in 0..n |->
     LET own == {i \in DOMAIN list : list[i][1] = u}
     IN  IF own = {} THEN Len(list) ELSE (CHOOSE i \in own : \A j \in own : i <= j) - 1],
   edges   |-> [i \in DOMAIN list |-> <<list[i][3], list[i][2]>>]]

Before(e, f) == e[1] < f[1] \/ (e[1] = f[1] /\ e[2] < f[2])

(* By ends, and parallel edges by falling weights. *)
InOrder(list) == SortSeq(list, LAMBDA e, f : Before(e, f) \/ (Ends(<<e>>) = Ends(<<f>>) /\ e[3] > f[3]))

(* Bug for the mutation runs: the first of parallel edges is kept. *)
KeptFirst(list, i) ==
  list[i][1] # list[i][2] /\ (i = 1 \/ Ends(list)[i] # Ends(list)[i - 1])

(* No loops, and of parallel edges the last. *)
Kept(list, i) ==
  list[i][1] # list[i][2] /\ (i = Len(list) \/ Ends(list)[i] # Ends(list)[i + 1])

Symmetrized ==
  LET all  == InOrder(EdgeList("out") \o Back(EdgeList("out")))
      kept == Ascending({i \in DOMAIN all : Kept(all, i)})
  IN  Grouped([j \in DOMAIN kept |-> all[kept[j]]])

Fill(side) == filling' = side /\ pass' = "fill" /\ todo' = 0..n /\ cursor' = [u \in 0..n |-> u]

Complete ==
  /\ pass = "read"
  /\ IF is_file_symmetrized
       THEN /\ G' = IF symmetrized THEN G ELSE [G EXCEPT !["in"] = G["out"]]
            /\ pass' = "sort_out" /\ UNCHANGED <<todo, filling, cursor>>
       ELSE IF symmetrized
         THEN G' = [G EXCEPT !["out"] = Symmetrized] /\ Fill("out")
         ELSE G' = [G EXCEPT !["in"] = Grouped(InOrder(Back(EdgeList("out"))))] /\ Fill("in")
  /\ UNCHANGED <<file, symmetrized, weighted>>

(* Bug: an empty row takes the offset of the next one as it finds it. *)
FoundAnyhow(u, offset) == cursor[u] > u

Found(u, offset) == offset # m(filling)

(***************************************************************************)
(* The task of row u: unless its offset is set, it looks for one to the    *)
(* right and takes that; the offset behind the last row stays.  A read and *)
(* the write it leads to are one step, as what was found does not change.  *)
(***************************************************************************)
FillStep(u) ==
  LET v      == cursor[u]
      offset == G[filling].offsets[v]
      found  == Found(u, offset)
  IN  /\ pass = "fill" /\ u \in todo
      /\ G' = IF found THEN [G EXCEPT ![filling].offsets[u] = offset] ELSE G
      /\ IF found \/ v = n THEN todo' = todo \ {u} /\ UNCHANGED cursor
                           ELSE cursor' = [cursor EXCEPT ![u] = v + 1] /\ UNCHANGED todo
      /\ UNCHANGED <<file, symmetrized, weighted, filling, pass>>

Filled ==
  /\ Turn("fill", "sort_out", {}) /\ cursor' = <<>>
  /\ UNCHANGED <<file, symmetrized, weighted, G, filling>>

-----------------------------------------------------------------------------
(* shared_sum: every worker adds up copies of every block of its chunk. *)
shared_sum(count, f) ==
  LET chunk == block * num_workers
      In(first) ==
        LET last       == Least(first + chunk, count)
            num_blocks == CeilDiv(last - first, block)
            lo(k)      == first + (k % num_blocks) * block
            Of(k)      == MapThenSumSet(LAMBDA i : f[i], lo(k)..(Least(lo(k) + block, last) - 1))
        IN  MapThenSumSet(Of, 0..(num_blocks * copies - 1))
  IN  MapThenSumSet(In, {c * chunk : c \in 0..(CeilDiv(count, chunk) - 1)})

(* Bug: the first edges of empty rows are looked at, too. *)
IsBoundaryOfEmpty(side, u) == G[side].offsets[u] > 0 /\ G[side].offsets[u] < m(side)

(* Bug: rows of one edge are passed over. *)
IsBoundaryOfTwo(side, u) == G[side].offsets[u] > 0 /\ G[side].offsets[u] + 1 < G[side].offsets[u + 1]

IsBoundary(side, u) == G[side].offsets[u] > 0 /\ G[side].offsets[u] < G[side].offsets[u + 1]

(* Rows are sorted if targets fall at the beginnings of rows only. *)
is_sorted(side) ==
  LET descent(i)  == i > 0 /\ G[side].edges[i][2] > G[side].edges[i + 1][2]
      all         == [i \in 0..(m(side) - 1) |-> IF descent(i) THEN 1 ELSE 0]
      boundary    == [u \in Numbers |->
                        IF IsBoundary(side, u) /\ descent(G[side].offsets[u]) THEN 1 ELSE 0]
  IN  shared_sum(m(side), all) = shared_sum(n, boundary)

SortedRow(side, u) ==
  SortSeq(Row(side, u), LAMBDA e, f : e[2] < f[2] \/ (e[2] = f[2] /\ e[1] < f[1]))

(* make_sorted, for the out-edges and then, if there are any, the in-edges. *)
MakeSorted(side, next) ==
  /\ pass = "sort_" \o side
  /\ IF is_sorted(side) THEN pass' = next /\ UNCHANGED G
     ELSE /\ G' = [G EXCEPT ![side].edges = FlattenSeq([j \in 1..n |-> SortedRow(side, j - 1)])]
          /\ UNCHANGED pass
  /\ UNCHANGED <<file, symmetrized, weighted, filling, cursor, todo>>

(* The weight of an edge from its ends, whichever comes first. *)
make_random_weight ==
  /\ pass = "done" /\ weighted
  /\ \E weight \in Weightings :
       LET by(u, e)     == <<weight[Least(u, e[2]), u + e[2] - Least(u, e[2])], e[2]>>
           again(side)  == FlattenSeq([j \in 1..n |->
                             [i \in DOMAIN Row(side, j - 1) |-> by(j - 1, Row(side, j - 1)[i])]])
       IN  G' = [side \in DOMAIN G |-> IF side = "in" /\ symmetrized THEN G[side]
                                       ELSE [G[side] EXCEPT !.edges = again(side)]]
  /\ pass' = "reweighted"
  /\ UNCHANGED <<file, symmetrized, weighted, filling, cursor, todo>>

Next ==
  \/ Complete \/ Filled
  \/ \E u \in todo : FillStep(u)
  \/ MakeSorted("out", IF symmetrized THEN "done" ELSE "sort_in")
  \/ MakeSorted("in", "done")
  \/ make_random_weight

-----------------------------------------------------------------------------
(* out_offset, out_edge, in_offset, in_edge and the like: in which arrays   *)
(* a graph and the graph with all edges turned look.                        *)
OutSide(direction) == IF direction \/ symmetrized THEN "out" ELSE "in"
InSide(direction)  == IF ~ direction \/ symmetrized THEN "out" ELSE "in"

Read == pass \in {"done", "reweighted"}

(* What the file says, without weights if the graph has none. *)
FileEdges ==
  FlattenSeq([j \in 1..n |-> [i \in DOMAIN file.rows[j] |->
    <<j - 1, file.rows[j][i][1], IF weighted /\ file.weighted THEN file.rows[j][i][2] ELSE 1>>]])

SymmetricFile == ToBag(Ends(FileEdges)) = ToBag(Ends(Back(FileEdges)))
SymmetricWeights == ToBag(FileEdges) = ToBag(Back(FileEdges))

RowsInOrder(side) ==
  \A u \in Numbers : \A i \in 2..Len(Row(side, u)) : Row(side, u)[i - 1][2] <= Row(side, u)[i][2]

(***************************************************************************)
(* The arrays are a CSR graph: offsets rise from 0 to the number of edges, *)
(* and the targets in each row never fall.                                 *)
(***************************************************************************)
WellFormed(side) ==
  LET offsets == G[side].offsets
  IN  /\ DOMAIN offsets = 0..n /\ offsets[0] = 0 /\ offsets[n] = m(side)
      /\ \A u \in Numbers : offsets[u] <= offsets[u + 1]
      /\ RowsInOrder(side)

(* Sorting puts all rows in order: when they are seen to be, the loop of    *)
(* make_sorted ends after one pass over them, wherever the empty rows are.  *)
SortingEnds ==
  \A side \in DOMAIN G : pass = "sort_" \o side /\ RowsInOrder(side) => is_sorted(side)

(* The graph has the edges of the file or, symmetrized, one edge between    *)
(* any two ends of one, both ways, with the least of the weights.           *)
HasItsEdges ==
  LET both  == FileEdges \o Back(FileEdges)
      least == {e \in ToSet(both) : e[1] # e[2] /\ \A f \in ToSet(both) :
                  Ends(<<e>>) = Ends(<<f>>) => e[3] <= f[3]}
  IN  ToBag(EdgeList("out")) =
        IF symmetrized /\ ~ SymmetricFile THEN SetToBag(least) ELSE ToBag(FileEdges)

(* Every edge is found from both of its ends, in both directions of the     *)
(* graph. Of a file that is symmetric but for its weights the code takes    *)
(* the weight of the edge back for that of an in-edge.                      *)
EndsAgree ==
  \A direction \in BOOLEAN :
    LET out == EdgeList(OutSide(direction))
        in  == Back(EdgeList(InSide(direction)))
    IN  /\ ToBag(Ends(out)) = ToBag(Ends(in))
        /\ \/ ToBag(out) = ToBag(in)
           \/ pass = "done" /\ SymmetricFile /\ ~ SymmetricWeights

(* read_graph gives the graph of the file, whichever tasks fill in the      *)
(* offsets first, its loop of sorting ends, and write_graph writes what     *)
(* reads the same.                                                          *)
RowsAreRight ==
  /\ SortingEnds
  /\ Read =>
       /\ WellFormed("out") /\ (~ symmetrized => WellFormed("in"))
       /\ pass = "done" => HasItsEdges
       /\ EndsAgree
       /\ Parsed(Written(G["out"])) = G["out"].edges

=============================================================================
