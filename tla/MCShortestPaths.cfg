CONSTANTS
  B = 2
  Layers = 3
  n = 5
  Max = 7
  source = 0
  Graphs <- ManyGraphs
  Threads = {t1, t2}
  Writers = {w1, w2, w3}
  Numbers = {0, 1, 2, 3}
SPECIFICATION FairSpec
INVARIANTS
  FindsShortestPaths
  DijkstraInvariant
  BellmanFordInvariant
PROPERTIES
  Terminates
  ImplementsAtomicMin
  CallsReturn
