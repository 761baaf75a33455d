CONSTANTS
  Vertices = {0, 1, 2, 3, 4, 5}
  source = 0
  Graphs <- ManyGraphs
  Tasks = {t1, t2}
  Unreached = 15
  LongAfter = 2
  MaxStride = 3
SPECIFICATION Spec
SYMMETRY Symmetry
INVARIANTS
  SearchInvariant
  TreeInvariant
  FindsTree
