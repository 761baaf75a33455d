CONSTANTS
  Vertices = {0, 1, 2, 3, 4}
  Graphs <- AllGraphs
  Hashes <- OneHash
  Tasks = {t1, t2}
  Palette = 2
  Width = 3
SPECIFICATION Spec
SYMMETRY Symmetry
INVARIANTS
  FindsGreedyColoring
  ColoringInvariant
